---------------------------- MODULE Spec2Model ----------------------------
(***************************************************************************)
(* State-machine model of the floorplan editor's canvas component          *)
(* (src/src/components/FloorplanCanvas.tsx, second component, lines        *)
(* 231-1208), of the page that owns the active tool (src/src/pages/        *)
(* Index.tsx), of the context-menu hook and component, and of the          *)
(* FloorplanGenerator (src/unnamed/part_003).                              *)
(*                                                                         *)
(* The drawing surface (fabric) is modelled by the operations the code     *)
(* calls on it: an ordered list of objects, add / remove / reorder, one    *)
(* active object and the selection events its changes fire.  Pixel         *)
(* coordinates are integers; the bounding rect of an object is its         *)
(* (left, top, width, height), the stroke width is not added to it.        *)
(*                                                                         *)
(* The mouse, selection and object handlers are bound inside an effect     *)
(* whose dependencies are the React state they close over.  The model      *)
(* keeps the React state and the values captured by the handlers that are  *)
(* currently bound apart (cl, isDragging, dragStarted); Rebind is the      *)
(* effect re-run, and it may happen any time after a dependency changed.   *)
(*                                                                         *)
(* The upload dialog (src/src/components/FloorplanUpload.tsx), the file    *)
(* validator (src/src/utils/fileValidator.ts), the analysis (FloorplanAI,  *)
(* src/unnamed/part_004 and src/src/utils/FloorplanAI.ts) and the output   *)
(* validator (src/src/utils/dataValidator.ts) are modelled next to it:     *)
(* files are records of what the validator reads from them, strings are    *)
(* sequences of characters, an object URL is a number, and the awaits on   *)
(* the two inference calls are steps of their own.                         *)
(***************************************************************************)
EXTENDS Integers, Sequences, FiniteSets, TLC

\* ------------------------------------------------------------------ bounds
MaxRoomRects == 1      \* rectangles the room tool may create
MaxRoomPair  == 2      \* rectangles where only the room tool is used
MaxDrops     == 1      \* furniture drops next to drawn rooms and label edits
MaxStack     == 2      \* furniture drops where only clicks and menus follow
MaxWalls     == 1      \* walls drawn
MaxDims      == 1      \* dimension annotations added
MaxEdits     == 1      \* double-click label edits started
MaxGens      == 1      \* generated layouts
MaxHandlers  == 2      \* mouse:dblclick handlers told apart; more count as this many
MaxTransforms == 1     \* native move / scale steps within one press
MaxSelects   == 2      \* files chosen in the upload dialog, next to analyses
MaxPicks     == 3      \* files chosen where the dialog is only opened and closed
MaxAnalyses  == 2      \* analyses started from the upload dialog

\* ------------------------------------------------------- program constants
GridSize        == 20  \* snapToGrid default, feet conversion
LabelMinSize    == 10  \* labels only above this size
LabelOffset     == 15  \* distance of a dimension label from the room
MinFinalSize    == 1   \* Math.max(1, width)
FallbackWidth   == 60  \* furniture placeholder when parsing fails
FallbackHeight  == 40
GenOffset       == 100 \* generated rooms are offset from the edge
DeleteInset     == 10  \* delete button inset from the corner
CanvasWidth     == 1200
CanvasHeight    == 800

\* ------------------------------------------------------------ input sets
\* pointer positions (px): a cell corner, a point that snaps to it, a
\* point one axis away and a point both axes away
Points == {<<0, 0>>, <<8, 8>>, <<40, 0>>, <<40, 40>>}
MovePos   == {<<60, 60>>}
ScaleSize == {<<8, 40>>, <<60, 60>>}       \* width/height after a scale
Tools == {"select", "wall", "room", "dimension", "photo"}

NoId == <<>>
Null == 0

\* ---------------------------------------------------------- pure helpers
Abs(x) == IF x < 0 THEN -x ELSE x
Max(a, b) == IF a >= b THEN a ELSE b
Min(a, b) == IF a <= b THEN a ELSE b

\* Math.round(x / d) for integers x and d > 0 (halves round up)
RoundDiv(x, d) == (2 * x + d) \div (2 * d)

\* a snap that would round down: Math.floor in place of Math.round
snapToGridDown(c) == (c \div GridSize) * GridSize

\* snapToGrid(coordinate, gridSize = 20)
snapToGrid(c) == RoundDiv(c, GridSize) * GridSize

\* Math.round(px / 20 * 10) / 10, kept in tenths of a foot
FeetTenths(px) == RoundDiv(px * 10, GridSize)

SeqToSet(s) == {s[i] : i \in 1..Len(s)}
IndexOf(s, x) == IF x \in SeqToSet(s)
                 THEN CHOOSE i \in 1..Len(s) : s[i] = x /\ \A j \in 1..(i-1) : s[j] # x
                 ELSE 0
\* the array without its first x
RemoveElem(s, x) ==
  LET i == IndexOf(s, x)
  IN IF i = 0 THEN s ELSE SubSeq(s, 1, i - 1) \o SubSeq(s, i + 1, Len(s))


\* ------------------------------------------------------------------ state
VARIABLES
  heap,               \* every fabric object created so far, by reference
  canvasObjects,      \* fabricCanvas.getObjects(): references in draw order
  gridLineCount,      \* grid lines on the surface (below everything else)
  activeObject,       \* fabricCanvas.getActiveObject(), Null when none
  currentRoom,        \* (fabricCanvas as any).currentRoom
  currentWall,        \* (fabricCanvas as any).currentWall
  dimensionStart,     \* (fabricCanvas as any).dimensionStart
  isDrawing,          \* useState, FloorplanCanvas
  startPoint,         \* useState, FloorplanCanvas
  selectedObject,     \* useState, FloorplanCanvas
  deleteButton,       \* useState, FloorplanCanvas
  isEditingText,      \* useState, FloorplanCanvas
  contextMenu,        \* useState, useContextMenu
  roomLabelsRef,      \* useRef: room id -> its width and height label
  roomCounterRef,     \* useRef: number of the next room label
  activeTool,         \* useState, Index
  pageSelectedObject, \* useState, Index
  clock,              \* Date.now()
  effectPending,      \* a dependency of the handler effect has changed
  bound,              \* what the currently bound mouse handlers closed over
  dblclickHandlers,   \* mouse:dblclick handlers registered so far
  listenerSelected,   \* selectedObject values captured by the object:moving
                      \* and mouse:over listeners registered so far
  mouse,              \* pointer: button held, position, native transform
  editing,            \* the IText that is in editing mode, Null when none
  gesture,            \* bookkeeping of the gesture in progress
  dialog,             \* useState, FloorplanUpload, and its last toast
  ai,                 \* FloorplanAI: its static pipelines, the call in flight
  urls                \* object URLs created and not revoked, by purpose

vars == <<heap, canvasObjects, gridLineCount, activeObject, currentRoom,
          currentWall, dimensionStart, isDrawing, startPoint, selectedObject,
          deleteButton, isEditingText, contextMenu, roomLabelsRef,
          roomCounterRef, activeTool, pageSelectedObject, clock,
          effectPending, bound, listenerSelected, dblclickHandlers, mouse,
          editing, gesture,
          dialog, ai, urls>>

NoPoint == <<>>
HiddenButton == [show |-> FALSE, x |-> 0, y |-> 0]

\* A fabric object with the custom properties the code attaches to it.
\* left2 / top2 hold twice the left / top of a dimension label, whose
\* position left + width / 2 need not be an integer.
BlankObject ==
  [kind |-> "rect", isRoom |-> FALSE, isFurniture |-> FALSE, id |-> NoId,
   roomText |-> Null, furnitureText |-> Null, furnitureData |-> 0,
   objects |-> <<>>, left |-> 0, top |-> 0, width |-> 0, height |-> 0,
   text |-> 0, isDimensionLabel |-> FALSE, roomId |-> NoId,
   dimensionType |-> "", left2 |-> 0, top2 |-> 0,
   selectable |-> TRUE, evented |-> TRUE, exitListeners |-> <<>>,
   x1 |-> 0, y1 |-> 0, x2 |-> 0, y2 |-> 0, elementType |-> ""]

\* The mutable state a handler works on, as one record.
Cur ==
  [heap |-> heap, canvas |-> canvasObjects, grid |-> gridLineCount,
   active |-> activeObject, currentRoom |-> currentRoom,
   currentWall |-> currentWall, dimensionStart |-> dimensionStart,
   isDrawing |-> isDrawing, startPoint |-> startPoint,
   selectedObject |-> selectedObject, deleteButton |-> deleteButton,
   isEditingText |-> isEditingText, contextMenu |-> contextMenu,
   roomLabels |-> roomLabelsRef, roomCounter |-> roomCounterRef,
   activeTool |-> activeTool, pageSelected |-> pageSelectedObject,
   clock |-> clock, dirty |-> effectPending, editing |-> editing]

Commit(s) ==
  /\ heap' = s.heap
  /\ canvasObjects' = s.canvas
  /\ gridLineCount' = s.grid
  /\ activeObject' = s.active
  /\ currentRoom' = s.currentRoom
  /\ currentWall' = s.currentWall
  /\ dimensionStart' = s.dimensionStart
  /\ isDrawing' = s.isDrawing
  /\ startPoint' = s.startPoint
  /\ selectedObject' = s.selectedObject
  /\ deleteButton' = s.deleteButton
  /\ isEditingText' = s.isEditingText
  /\ contextMenu' = s.contextMenu
  /\ roomLabelsRef' = s.roomLabels
  /\ roomCounterRef' = s.roomCounter
  /\ activeTool' = s.activeTool
  /\ pageSelectedObject' = s.pageSelected
  /\ clock' = s.clock
  /\ editing' = s.editing
  /\ UNCHANGED <<dialog, ai, urls>>

\* ------------------------------------------------------- React state sets
\* Each setter marks the handler effect as due when it changes one of the
\* effect's dependencies (activeTool, isDrawing, startPoint, onObjectSelect,
\* selectedObject); onObjectSelect is re-created by every render of Index.
setIsDrawing(s, v) ==
  [s EXCEPT !.isDrawing = v, !.dirty = @ \/ (v # s.isDrawing)]

\* a point literal is a fresh object, so every non-null set is a change
setStartPoint(s, v) ==
  [s EXCEPT !.startPoint = v,
            !.dirty = @ \/ (v # NoPoint) \/ (s.startPoint # NoPoint)]

setSelectedObject(s, v) ==
  [s EXCEPT !.selectedObject = v, !.dirty = @ \/ (v # s.selectedObject)]

setDeleteButton(s, v) == [s EXCEPT !.deleteButton = v]

\* Index.handleObjectSelect; the canvas passes the string "select" as the
\* fall-back signal, modelled by SelectSignal
SelectSignal == -1

\* a page that would also switch tools when an object is selected
handleObjectSelectSwitchesTool(s, object) ==
  IF object = SelectSignal
  THEN [s EXCEPT !.activeTool = "select", !.pageSelected = Null,
                 !.dirty = @ \/ (s.activeTool # "select")
                             \/ (s.pageSelected # Null)]
  ELSE [s EXCEPT !.pageSelected = object, !.activeTool = "furniture",
                 !.dirty = TRUE]

handleObjectSelect(s, object) ==
  IF object = SelectSignal
  THEN [s EXCEPT !.activeTool = "select", !.pageSelected = Null,
                 !.dirty = @ \/ (s.activeTool # "select")
                             \/ (s.pageSelected # Null)]
  ELSE [s EXCEPT !.pageSelected = object,
                 !.dirty = @ \/ (object # s.pageSelected)]

\* ------------------------------------------------------ selection overlay
getBoundingRect(o) ==
  [left |-> o.left, top |-> o.top, width |-> o.width, height |-> o.height]

\* the canvas element sits at the viewport origin
updateDeleteButtonPosition(s, obj) ==
  IF obj = Null THEN s
  ELSE LET b == getBoundingRect(s.heap[obj])
       IN setDeleteButton(s, [show |-> TRUE,
                              x |-> b.left + b.width - DeleteInset,
                              y |-> b.top - DeleteInset])

\* ------------------------------------------------- drawing surface (fabric)
OnCanvas(s, o) == o \in SeqToSet(s.canvas)

bringObjectToFront(s, o) ==
  IF OnCanvas(s, o)
  THEN [s EXCEPT !.canvas = Append(RemoveElem(s.canvas, o), o)]
  ELSE s

sendObjectToBack(s, o) ==
  IF OnCanvas(s, o)
  THEN [s EXCEPT !.canvas = <<o>> \o RemoveElem(s.canvas, o)]
  ELSE s

sendObjectBackwards(s, o) ==
  LET i == IndexOf(s.canvas, o)
  IN IF i > 1
     THEN [s EXCEPT !.canvas = [s.canvas EXCEPT ![i - 1] = s.canvas[i],
                                                ![i] = s.canvas[i - 1]]]
     ELSE s

\* selection:created handler
OnSelectionCreated(s, obj) ==
  LET s1 == setSelectedObject(s, obj)
      s2 == handleObjectSelect(s1, obj)
      \* ids are only ever given the prefix room_
      s3 == IF s2.heap[obj].id # NoId THEN bringObjectToFront(s2, obj) ELSE s2
  IN updateDeleteButtonPosition(s3, obj)

\* selection:updated handler
OnSelectionUpdated(s, obj) ==
  updateDeleteButtonPosition(
    handleObjectSelect(setSelectedObject(s, obj), obj), obj)

\* selection:cleared handler
OnSelectionCleared(s) ==
  handleObjectSelect(
    setDeleteButton(setSelectedObject(s, Null), HiddenButton), Null)

\* canvas.setActiveObject: fires selection:created or selection:updated
setActiveObject(s, o) ==
  IF s.active = o THEN s
  ELSE IF s.active = Null
       THEN OnSelectionCreated([s EXCEPT !.active = o], o)
       ELSE OnSelectionUpdated([s EXCEPT !.active = o], o)

\* canvas.discardActiveObject: fires selection:cleared
discardActiveObject(s) ==
  IF s.active = Null THEN s
  ELSE OnSelectionCleared([s EXCEPT !.active = Null])

canvasAdd(s, o) == [s EXCEPT !.canvas = Append(@, o)]

\* canvas.remove: an active object that is removed is deselected
canvasRemove(s, o) ==
  IF ~OnCanvas(s, o) THEN s
  ELSE LET s1 == [s EXCEPT !.canvas = RemoveElem(@, o)]
       IN IF s.active = o
          THEN OnSelectionCleared([s1 EXCEPT !.active = Null])
          ELSE s1

\* a new object gets the next free reference
NewRef(s) == Cardinality(DOMAIN s.heap) + 1
Alloc(s, rec) == [s EXCEPT !.heap = (NewRef(s) :> rec) @@ @]

\* the topmost evented object under the pointer, Null on empty canvas; a
\* line of length zero has an empty outline and is never hit
Contains(o, p) ==
  /\ o.left <= p[1] /\ p[1] <= o.left + o.width
  /\ o.top <= p[2] /\ p[2] <= o.top + o.height
  /\ ~(o.kind = "line" /\ o.width = 0 /\ o.height = 0)

findTarget(s, p) ==
  LET hits == {i \in 1..Len(s.canvas) :
                 /\ s.heap[s.canvas[i]].evented
                 /\ Contains(s.heap[s.canvas[i]], p)}
  IN IF hits = {} THEN Null
     ELSE s.canvas[CHOOSE i \in hits : \A j \in hits : j <= i]

\* --------------------------------------------------- dimension labels
NoLabels == [i \in {} |-> Null]

DimensionLabel(roomId, type, x2, y2, feet) ==
  [BlankObject EXCEPT !.kind = "text", !.isDimensionLabel = TRUE,
                      !.roomId = roomId, !.dimensionType = type,
                      !.left2 = x2, !.top2 = y2, !.text = feet,
                      !.selectable = FALSE, !.evented = FALSE]

\* where the two labels of a room with these bounds go (doubled)
WidthLabelLeft2(left, width)  == 2 * left + width
WidthLabelTop2(top, height)   == 2 * (top + height + LabelOffset)
HeightLabelLeft2(left, width) == 2 * (left + width + LabelOffset)
HeightLabelTop2(top, height)  == 2 * top + height

\* the create branch: two new FabricText objects, added and registered
NewRoomDimensionLabels(s, roomId, left, top, width, height, widthFeet, heightFeet) ==
  LET w  == NewRef(s)
      h  == w + 1
      s1 == Alloc(s, DimensionLabel(roomId, "width",
                     WidthLabelLeft2(left, width),
                     WidthLabelTop2(top, height), widthFeet))
      s2 == Alloc(s1, DimensionLabel(roomId, "height",
                     HeightLabelLeft2(left, width),
                     HeightLabelTop2(top, height), heightFeet))
      s3 == [s2 EXCEPT !.roomLabels =
               [i \in DOMAIN @ \cup {roomId} |->
                  IF i = roomId THEN [width |-> w, height |-> h] ELSE @[i]]]
  IN canvasAdd(canvasAdd(s3, w), h)

\* createRoomDimensionLabels without its look-up of existing labels
createRoomDimensionLabelsAlwaysNew(s, roomId, left, top, width, height, widthFeet, heightFeet) ==
  NewRoomDimensionLabels(s, roomId, left, top, width, height,
                         widthFeet, heightFeet)

\* update the registered pair in place, or create and register one
createRoomDimensionLabels(s, roomId, left, top, width, height, widthFeet, heightFeet) ==
  IF roomId \in DOMAIN s.roomLabels
  THEN LET existing == s.roomLabels[roomId]
       IN [s EXCEPT
             !.heap[existing.width].left2 = WidthLabelLeft2(left, width),
             !.heap[existing.width].top2 = WidthLabelTop2(top, height),
             !.heap[existing.width].text = widthFeet,
             !.heap[existing.height].left2 = HeightLabelLeft2(left, width),
             !.heap[existing.height].top2 = HeightLabelTop2(top, height),
             !.heap[existing.height].text = heightFeet]
  ELSE NewRoomDimensionLabels(s, roomId, left, top, width, height,
                              widthFeet, heightFeet)

\* labels while the room is being drawn
updateRoomDimensions(s, room, start, end) ==
  LET roomId == s.heap[room].id
      width  == Abs(end[1] - start[1])
      height == Abs(end[2] - start[2])
      left   == Min(start[1], end[1])
      top    == Min(start[2], end[2])
  IN IF roomId = NoId THEN s
     ELSE IF width > LabelMinSize /\ height > LabelMinSize
          THEN createRoomDimensionLabels(s, roomId, left, top, width, height,
                                         FeetTenths(width), FeetTenths(height))
          ELSE s

\* labels from the room's current bounding rect
updatePersistentRoomDimensions(s, room) ==
  LET b == getBoundingRect(s.heap[room])
  IN IF s.heap[room].id = NoId THEN s
     ELSE IF b.width > LabelMinSize /\ b.height > LabelMinSize
          THEN createRoomDimensionLabels(s, s.heap[room].id, b.left, b.top,
                                         b.width, b.height,
                                         FeetTenths(b.width),
                                         FeetTenths(b.height))
          ELSE s

\* removeRoomDimensionLabels without roomLabelsRef.current.delete(roomId)
removeRoomDimensionLabelsKeepsIndex(s, roomId) ==
  IF roomId \in DOMAIN s.roomLabels
  THEN canvasRemove(canvasRemove(s, s.roomLabels[roomId].width),
                    s.roomLabels[roomId].height)
  ELSE s

removeRoomDimensionLabels(s, roomId) ==
  IF roomId \in DOMAIN s.roomLabels
  THEN LET existing == s.roomLabels[roomId]
           s1 == canvasRemove(canvasRemove(s, existing.width), existing.height)
       IN [s1 EXCEPT !.roomLabels =
             [i \in DOMAIN @ \ {roomId} |-> @[i]]]
  ELSE LET labelsToRemove ==
             SelectSeq(s.canvas, LAMBDA o : /\ s.heap[o].isDimensionLabel
                                            /\ s.heap[o].roomId = roomId)
       IN [s EXCEPT !.canvas =
             SelectSeq(@, LAMBDA o : o \notin SeqToSet(labelsToRemove))]

\* ------------------------------------------------------------ z-order
\* getObjects().forEach(obj => { if (obj.isFurniture [&& obj !== skip])
\*                                 bringObjectToFront(obj) })
\* over the copy of the object list taken when the loop starts
RECURSIVE RaiseFurnitureFrom(_, _, _, _)
RaiseFurnitureFrom(s, snapshot, i, skip) ==
  IF i > Len(snapshot) THEN s
  ELSE RaiseFurnitureFrom(
         IF s.heap[snapshot[i]].isFurniture /\ snapshot[i] # skip
         THEN bringObjectToFront(s, snapshot[i]) ELSE s,
         snapshot, i + 1, skip)

RaiseAllFurniture(s, skip) == RaiseFurnitureFrom(s, s.canvas, 1, skip)

\* ------------------------------------------------------ object factories

IsRoomRect(o)   == o.kind = "rect" /\ o.isRoom
IsWall(o)       == o.kind = "line" /\ o.elementType = "wall"
IsDimLine(o)    == o.kind = "line" /\ o.elementType = "dimension"

CountRoomRects(h) == Cardinality({o \in DOMAIN h : IsRoomRect(h[o])})
CountWalls(h)     == Cardinality({o \in DOMAIN h : IsWall(h[o])})
CountDimLines(h)  == Cardinality({o \in DOMAIN h : IsDimLine(h[o])})

IsFurnitureGroup(o) == o.kind = "group" /\ o.furnitureData # 0

RoomId(t, n) == <<t, n>>     \* `room_${t}` (n = 0) or `room_${t}_${n}`

\* the transient rectangle of the room tool (mouse:move)
TransientRoomRect(p, t) ==
  [BlankObject EXCEPT !.kind = "rect", !.left = p[1], !.top = p[2],
                      !.width = 0, !.height = 0,
                      !.id = RoomId(t, 0), !.isRoom = TRUE]

WallLine(x, y) ==
  [BlankObject EXCEPT !.kind = "line", !.elementType = "wall",
                      !.x1 = x, !.y1 = y, !.x2 = x, !.y2 = y,
                      !.left = x, !.top = y]

\* wall.set({x2, y2}); the bounding rect follows the end points
SetLineEnd(o, x, y) ==
  [o EXCEPT !.x2 = x, !.y2 = y,
            !.left = Min(o.x1, x), !.top = Min(o.y1, y),
            !.width = Abs(x - o.x1), !.height = Abs(y - o.y1)]

\* new Group([rect, text], {left, top}) and its two children, allocated as
\* rect, text, group; returns the state, the group is NewRef(s) + 2
AllocGroup(s, left, top, width, height, text, tags) ==
  LET r == NewRef(s)
      s1 == Alloc(s, [BlankObject EXCEPT !.kind = "rect", !.left = left,
                        !.top = top, !.width = width, !.height = height])
      s2 == Alloc(s1, [BlankObject EXCEPT !.kind = "itext",
                        !.left = left, !.top = top, !.text = text,
                        !.selectable = FALSE, !.evented = FALSE])
  IN Alloc(s2, [tags EXCEPT !.kind = "group", !.left = left, !.top = top,
                            !.width = width, !.height = height,
                            !.objects = <<r, r + 1>>])

\* ------------------------------------------------------------- the grid
\* addGridToCanvas: one line per multiple of the minor spacing, both ways
addGridToCanvas(s) ==
  [s EXCEPT !.grid = @ + (CanvasWidth \div GridSize + 1)
                       + (CanvasHeight \div GridSize + 1)]

\* ------------------------------------------------------------ initial state
HiddenMenu == [isVisible |-> FALSE, x |-> 0, y |-> 0, target |-> Null]
\* hover: while a button is held, the object the pointer was last over
IdleMouse  == [pressed |-> FALSE, p |-> <<0, 0>>, transform |-> Null,
               acted |-> FALSE, steps |-> 0, hover |-> Null]
\* roomPress: the press in progress took the room branch; start: its
\* snapped point; moved: a move followed the press; before: the surface
\* when the press arrived; roomClick: the last gesture completed was a
\* room press released without a move; editGroup, editBefore: the composite
\* whose label is being edited and the surface when it was double-clicked;
\* dropToast: the last drop ended in a toast (the only notification the
\* drop handler has; its other branches write to the console); rects: the
\* rectangles the room tool may create; the rest count operations
NoGesture  == [roomPress |-> FALSE, start |-> NoPoint, moved |-> FALSE,
               before |-> <<>>, roomClick |-> FALSE,
               editGroup |-> Null, editBefore |-> <<>>,
               generated |-> 0, edits |-> 0, drops |-> 0, dimClicks |-> 0,
               dropToast |-> FALSE, rects |-> MaxRoomRects]

\* --------------------------------------------------------- fileValidator
\* A File is its name (characters), its size in bytes, its declared MIME
\* type, the bytes it starts with (head) and what the browser makes of it
\* as an image (decodes or not, natural width and height).
FILE_SIGNATURES ==
  [jpeg     |-> <<255, 216, 255>>,
   png      |-> <<137, 80, 78, 71, 13, 10, 26, 10>>,
   pdf      |-> <<37, 80, 68, 70>>,
   jpegExif |-> <<255, 216, 255, 225>>,
   jpegJfif |-> <<255, 216, 255, 224>>]

ALLOWED_MIME_TYPES == {"image/jpeg", "image/jpg", "image/png", "application/pdf"}

MAX_FILE_SIZE == 10 * 1024 * 1024
MAX_FILENAME_LENGTH == 255
MagicSlice == 16        \* file.slice(0, 16)
PdfChunk == 1024        \* file.slice(0, 1024)
MaxImageSide == 10000   \* img.width <= 10000 && img.height <= 10000

\* file.slice(0, n)
Slice(bytes, n) == SubSeq(bytes, 1, Min(n, Len(bytes)))

\* checkSignature
checkSignature(bytes, signature) ==
  IF Len(bytes) < Len(signature) THEN FALSE
  ELSE \A index \in 1..Len(signature) : bytes[index] = signature[index]

\* a variant that asks for any known signature, whatever file.type says
validateMagicNumberAnyType(file) ==
  LET bytes == Slice(file.head, MagicSlice)
  IN \/ checkSignature(bytes, FILE_SIGNATURES.jpeg)
     \/ checkSignature(bytes, FILE_SIGNATURES.png)
     \/ checkSignature(bytes, FILE_SIGNATURES.pdf)

\* validateMagicNumber: the signature asked for is the one of file.type
validateMagicNumber(file) ==
  LET bytes == Slice(file.head, MagicSlice)
      isJpeg == \/ checkSignature(bytes, FILE_SIGNATURES.jpeg)
                \/ checkSignature(bytes, FILE_SIGNATURES.jpegExif)
                \/ checkSignature(bytes, FILE_SIGNATURES.jpegJfif)
      isPng == checkSignature(bytes, FILE_SIGNATURES.png)
      isPdf == checkSignature(bytes, FILE_SIGNATURES.pdf)
  IN CASE file.type \in {"image/jpeg", "image/jpg"} -> isJpeg
       [] file.type = "image/png" -> isPng
       [] file.type = "application/pdf" -> isPdf
       [] OTHER -> FALSE

\* validateImageContent: the image loads, fails to load, or the 5 s timer
\* fires first (inTime = FALSE); whichever settles the promise first wins
validateImageContent(file, inTime) ==
  IF ~inTime THEN FALSE
  ELSE IF ~file.image.ok THEN FALSE
  ELSE /\ file.image.width > 0 /\ file.image.height > 0
       /\ file.image.width <= MaxImageSide /\ file.image.height <= MaxImageSide

\* chunk.includes(part)
Includes(chunk, part) ==
  \E i \in 1..(Len(chunk) - Len(part) + 1) :
     SubSeq(chunk, i, i + Len(part) - 1) = part

PdfMarker == <<37, 80, 68, 70, 45>>     \* '%PDF-'
NewLine == <<10>>                       \* '\n'

\* validatePdfContent
validatePdfContent(file) ==
  LET chunk == Slice(file.head, PdfChunk)
  IN Includes(chunk, PdfMarker) /\ Includes(chunk, NewLine)

\* the types for which file.type.startsWith('image/')
MimeImage == {"image/jpeg", "image/jpg", "image/png", "image/gif"}

\* validateFileContent
validateFileContent(file, inTime) ==
  IF file.type \in MimeImage THEN validateImageContent(file, inTime)
  ELSE IF file.type = "application/pdf" THEN validatePdfContent(file)
  ELSE FALSE

\* the characters /[<>:"/\\|?*\x00-\x1f]/ removes; "\t" stands for the
\* control characters
DangerousChars == {"<", ">", ":", "\"", "/", "\\", "|", "?", "*", "\t"}
WhiteSpace == {" "}

RECURSIVE DropLeading(_, _)
DropLeading(str, c) ==
  IF str # <<>> /\ str[1] = c THEN DropLeading(Tail(str), c) ELSE str

RECURSIVE DropTrailing(_, _)
DropTrailing(str, c) ==
  IF str # <<>> /\ str[Len(str)] = c
  THEN DropTrailing(SubSeq(str, 1, Len(str) - 1), c) ELSE str

\* .replace(/\s+/g, '_'): every run of white space becomes one underscore
RECURSIVE ReplaceRuns(_)
ReplaceRuns(str) ==
  IF str = <<>> THEN <<>>
  ELSE IF str[1] \in WhiteSpace
       THEN <<"_">> \o ReplaceRuns(DropLeading(str, " "))
       ELSE <<str[1]>> \o ReplaceRuns(Tail(str))

\* String.trim
Trim(str) == DropTrailing(DropLeading(str, " "), " ")

\* sanitizeFilename; '' is the empty sequence
sanitizeFilename(filename) ==
  IF filename = <<>> \/ Len(filename) > MAX_FILENAME_LENGTH THEN <<>>
  ELSE LET safe == SelectSeq(filename, LAMBDA c : c \notin DangerousChars)
           noLead == DropLeading(safe, ".")
           noTrail == DropTrailing(noLead, ".")
           spaced == ReplaceRuns(noTrail)
           cut == SubSeq(spaced, 1, Min(MAX_FILENAME_LENGTH, Len(spaced)))
           sanitized == Trim(cut)
       IN IF sanitized = <<>> \/ sanitized = <<".">> THEN <<>> ELSE sanitized

NoFile == [name |-> <<>>, size |-> 0, type |-> "", head |-> <<>>,
           image |-> [ok |-> FALSE, width |-> 0, height |-> 0]]

\* validateFile; inTime: the image settles before the content timer
validateFile(file, inTime) ==
  LET sanitizedName == sanitizeFilename(file.name)
      bad(error) == [isValid |-> FALSE, error |-> error, sanitizedFile |-> NoFile]
  IN IF file.size > MAX_FILE_SIZE THEN bad("File size exceeds 10MB limit")
     ELSE IF file.size = 0 THEN bad("File is empty")
     ELSE IF sanitizedName = <<>> THEN bad("Invalid filename")
     ELSE IF file.type \notin ALLOWED_MIME_TYPES THEN bad("Invalid file type")
     ELSE IF ~validateMagicNumber(file) THEN bad("File content does not match file extension")
     ELSE IF ~validateFileContent(file, inTime) THEN bad("File content validation failed")
     ELSE [isValid |-> TRUE, error |-> "",
           sanitizedFile |-> [file EXCEPT !.name = sanitizedName]]

\* ------------------------------------------------------------ input files
JpegHead == <<255, 216, 255, 224, 0, 16>>
PngHead  == <<137, 80, 78, 71, 13, 10, 26, 10, 0, 0>>
PdfHead  == <<37, 80, 68, 70, 45, 49, 10>>         \* '%PDF-1\n'
PdfNoLine == <<37, 80, 68, 70, 45, 49>>            \* '%PDF-1'
Decoded(w, h) == [ok |-> TRUE, width |-> w, height |-> h]
Undecoded == [ok |-> FALSE, width |-> 0, height |-> 0]

Photo == [name |-> <<"a", ".", "j", "p", "g">>, size |-> 2048,
          type |-> "image/jpeg", head |-> JpegHead, image |-> Decoded(800, 600)]
Scan  == [name |-> <<"b", ".", "p", "n", "g">>, size |-> 4096,
          type |-> "image/png", head |-> PngHead, image |-> Decoded(400, 300)]
Plan  == [name |-> <<"c", ".", "p", "d", "f">>, size |-> 8192,
          type |-> "application/pdf", head |-> PdfHead, image |-> Undecoded]

LongName == [i \in 1..(MAX_FILENAME_LENGTH + 1) |-> "a"]

\* files the validator takes, at the edge of what it takes
GoodFiles ==
  { Photo, Scan, Plan,
    [Photo EXCEPT !.type = "image/jpg"],
    [Photo EXCEPT !.size = MAX_FILE_SIZE],
    [Photo EXCEPT !.head = <<255, 216, 255>>],
    [Scan EXCEPT !.name = <<".", "b", " ", " ", "<", "1", ">", ".">>],
    [Scan EXCEPT !.image = Decoded(MaxImageSide, 100)],
    [Photo EXCEPT !.head = <<255, 216, 255, 225, 0, 16>>],
    [Scan EXCEPT !.image = Decoded(1000, 500)] }

\* one file for each way to fail
BadFiles ==
  { [Photo EXCEPT !.size = 0, !.head = <<>>],
    [Photo EXCEPT !.size = MAX_FILE_SIZE + 1],
    [Photo EXCEPT !.name = <<>>],
    [Photo EXCEPT !.name = <<".", ".">>],
    [Photo EXCEPT !.name = <<"<", ">", "?">>],
    [Photo EXCEPT !.name = LongName],
    [Photo EXCEPT !.type = "image/gif"],
    [Photo EXCEPT !.type = ""],
    [Photo EXCEPT !.type = "image/png"],
    [Scan EXCEPT !.head = <<137, 80, 78, 71>>],
    [Plan EXCEPT !.type = "image/jpeg"],
    [Plan EXCEPT !.head = PdfNoLine],
    [Plan EXCEPT !.head = <<37, 80, 68, 70, 10>>],
    [Photo EXCEPT !.image = Undecoded],
    [Photo EXCEPT !.image = Decoded(0, 600)],
    [Scan EXCEPT !.image = Decoded(MaxImageSide + 1, 300)] }

Files == GoodFiles \cup BadFiles

\* the files chosen where analyses follow: a photo, a PDF, a wide scan, an
\* empty file
AnalysedFiles ==
  { Photo, Plan, [Scan EXCEPT !.image = Decoded(1000, 500)],
    [Photo EXCEPT !.size = 0, !.head = <<>>] }

\* ------------------------------------------------------------ FloorplanAI
\* Two versions of the class are in the repository: src/unnamed/part_004
\* bounds each inference call by a timer and validates every detection,
\* src/src/utils/FloorplanAI.ts does neither.  ai.secured tells which one
\* the build has.
\*
\* Pixel coordinates are integers and scores are hundredths (30 is 0.3),
\* so Math.floor leaves a coordinate as it is.
MinConfidence == 30       \* element.confidence > 0.3
SyntheticConfidence == 80 \* confidence: 0.8
DefaultScale == 20        \* scale: 20
MaxDetections == 100      \* if (index >= 100) return
AvgRoomSizeFeet == 200    \* avgRoomSizeFeet
PdfScale == 2             \* const scale = 2

\* String.toLowerCase, for the capitals the input labels have
ToLower(c) == CASE c = "D" -> "d" [] c = "W" -> "w" [] OTHER -> c
toLowerCase(str) == [i \in 1..Len(str) |-> ToLower(str[i])]

\* mapLabelToType
mapLabelToType(label) ==
  LET lowerLabel == toLowerCase(label)
  IN IF Includes(lowerLabel, <<"d", "o", "o", "r">>) THEN "door"
     ELSE IF Includes(lowerLabel, <<"w", "i", "n", "d", "o", "w">>) THEN "window"
     ELSE IF Includes(lowerLabel, <<"w", "a", "l", "l">>) THEN "wall"
     ELSE "room"

\* createSyntheticRooms; a label is its text and, for a detection, the
\* number that follows the text
SyntheticLabel(text) == [text |-> text, n |-> 0]

createSyntheticRooms(image) ==
  LET width == image.width
      height == image.height
  IN << [type |-> "room",
         coordinates |-> [x |-> (width * 10) \div 100, y |-> (height * 10) \div 100,
                          width |-> (width * 35) \div 100, height |-> (height * 40) \div 100],
         label |-> SyntheticLabel("Living Room"), confidence |-> SyntheticConfidence],
        [type |-> "room",
         coordinates |-> [x |-> (width * 55) \div 100, y |-> (height * 10) \div 100,
                          width |-> (width * 35) \div 100, height |-> (height * 40) \div 100],
         label |-> SyntheticLabel("Kitchen"), confidence |-> SyntheticConfidence],
        [type |-> "room",
         coordinates |-> [x |-> (width * 10) \div 100, y |-> (height * 60) \div 100,
                          width |-> (width * 80) \div 100, height |-> (width * 30) \div 100],
         label |-> SyntheticLabel("Bedroom"), confidence |-> SyntheticConfidence] >>

\* the fallback both analyzeFloorplan and performAnalysis build
Fallback(image) ==
  [elements |-> createSyntheticRooms(image),
   dimensions |-> [width |-> image.width, height |-> image.height],
   scale |-> DefaultScale]

Dropped == [type |-> "none"]

\* the element one detection gives in src/unnamed/part_004, Dropped when
\* the detection is skipped
SecuredElement(detection, index, image) ==
  IF index >= MaxDetections THEN Dropped
  ELSE IF ~detection.hasBox THEN Dropped
  ELSE LET box == detection.box
       IN IF \/ box.xmin < 0 \/ box.ymin < 0
             \/ box.xmax > image.width \/ box.ymax > image.height
          THEN Dropped
          ELSE [type |-> mapLabelToType(detection.label),
                coordinates |-> [x |-> Max(0, box.xmin), y |-> Max(0, box.ymin),
                                 width |-> Max(1, box.xmax - box.xmin),
                                 height |-> Max(1, box.ymax - box.ymin)],
                label |-> [text |-> mapLabelToType(detection.label), n |-> index + 1],
                confidence |-> Max(0, Min(100, detection.score))]

\* the element one detection gives in src/src/utils/FloorplanAI.ts
PlainElement(detection, index) ==
  [type |-> mapLabelToType(detection.label),
   coordinates |-> [x |-> detection.box.xmin, y |-> detection.box.ymin,
                    width |-> detection.box.xmax - detection.box.xmin,
                    height |-> detection.box.ymax - detection.box.ymin],
   label |-> [text |-> mapLabelToType(detection.label), n |-> index + 1],
   confidence |-> detection.score]

\* a variant that pushes every element
ConfidentAlways(element) == element # Dropped

\* if (element.confidence > 0.3) elements.push(element)
Confident(element) == element # Dropped /\ element.confidence > MinConfidence

\* processDetectionResults; index counts from 0.  objectResults.isArray
\* is Array.isArray(objectResults).  Without the validation a detection
\* that has no box makes the loop throw (threw).
processDetectionResults(objectResults, image, secured) ==
  LET list == IF objectResults.isArray THEN objectResults.list ELSE <<>>
      threw == ~secured /\ \E i \in 1..Len(list) : ~list[i].hasBox
      made == [i \in 1..Len(list) |->
                 IF secured THEN SecuredElement(list[i], i - 1, image)
                 ELSE IF list[i].hasBox THEN PlainElement(list[i], i - 1)
                 ELSE Dropped]
      elements == SelectSeq(made, Confident)
      rooms == SelectSeq(elements, LAMBDA e : e.type = "room")
  IN [threw |-> threw,
      elements |-> IF Len(rooms) = 0 THEN elements \o createSyntheticRooms(image)
                   ELSE elements]

\* Math.sqrt, rounded down
Sqrt(n) == CHOOSE r \in 0..1000 : r * r <= n /\ n < (r + 1) * (r + 1)

RECURSIVE SumArea(_)
SumArea(rooms) ==
  IF rooms = <<>> THEN 0
  ELSE rooms[1].coordinates.width * rooms[1].coordinates.height + SumArea(Tail(rooms))

\* estimateScale
estimateScale(image, elements) ==
  LET roomElements == SelectSeq(elements, LAMBDA e : e.type = "room")
  IN IF Len(roomElements) = 0 THEN DefaultScale
     ELSE Sqrt((SumArea(roomElements) \div Len(roomElements)) \div AvgRoomSizeFeet)

\* what performAnalysis returns once both inference calls have resolved
Analysed(objectResults, image, secured) ==
  LET processed == processDetectionResults(objectResults, image, secured)
  IN IF processed.threw THEN Fallback(image)
     ELSE [elements |-> processed.elements,
           dimensions |-> [width |-> image.width, height |-> image.height],
           scale |-> estimateScale(image, processed.elements)]

NoData == [elements |-> <<>>, dimensions |-> [width |-> 0, height |-> 0], scale |-> 0]
NoResult == [success |-> FALSE, data |-> NoData, error |-> "none"]
Success(data) == [success |-> TRUE, data |-> data, error |-> ""]
Failure(error) == [success |-> FALSE, data |-> NoData, error |-> error]

\* --------------------------------------------------- detector input sets
Box(xmin, ymin, xmax, ymax) == [xmin |-> xmin, ymin |-> ymin, xmax |-> xmax, ymax |-> ymax]
Detection(label, score, box) == [label |-> label, score |-> score, hasBox |-> TRUE, box |-> box]
Couch == <<"c", "o", "u", "c", "h">>
Door  == <<"D", "o", "o", "r">>
InBox == Box(10, 10, 110, 60)

Detections ==
  { Detection(Couch, 95, InBox),
    Detection(Couch, MinConfidence, InBox),
    Detection(Couch, MinConfidence - 1, InBox),
    Detection(Couch, MinConfidence + 1, InBox),
    Detection(Door, 95, InBox),
    Detection(Door, 5, InBox),
    Detection(Couch, 120, InBox),
    Detection(Couch, 95, Box(10, 10, 20000, 60)),
    [Detection(Couch, 95, InBox) EXCEPT !.hasBox = FALSE] }

\* what the detector resolves with: something that is no array, short
\* lists, and one list longer than the limit on detections
ObjectResults ==
  { [isArray |-> FALSE, list |-> <<>>], [isArray |-> TRUE, list |-> <<>>] }
  \cup { [isArray |-> TRUE, list |-> <<d>>] : d \in Detections }
  \cup { [isArray |-> TRUE, list |-> <<Detection(Door, 5, InBox), d>>] : d \in Detections }
  \cup { [isArray |-> TRUE, list |-> [i \in 1..(MaxDetections + 1) |-> Detection(Couch, 95, InBox)]] }

NoUrls == [made |-> 0, live |-> {}]

\* ------------------------------------------------- upload dialog, state
\* previewUrl and imageUrl are the number of an object URL, Null for none.
\* toast is the last toast shown; delivered is what onFloorplanAnalyzed
\* was last called with; selects and analyses count operations.
ClosedDialog ==
  [isOpen |-> FALSE, file |-> NoFile, previewUrl |-> Null,
   isAnalyzing |-> FALSE, toast |-> "none", delivered |-> NoData,
   selects |-> 0, analyses |-> 0]

\* pending: the inference call analyzeFloorplan waits for ("none" when no
\* call is in flight); result: what the last call returned; returned:
\* calls that have returned
IdleAI ==
  [secured |-> FALSE, objectDetector |-> FALSE, imageSegmenter |-> FALSE,
   pending |-> "none", imageUrl |-> Null,
   image |-> [width |-> 0, height |-> 0], objectResults |-> [isArray |-> FALSE, list |-> <<>>],
   result |-> NoResult, returned |-> 0]

\* the canvas component, the page and the dialog after construction
InitSurface ==
  /\ heap = [o \in {} |-> BlankObject]
  /\ canvasObjects = <<>>
  /\ gridLineCount = (CanvasWidth \div GridSize + 1)
                     + (CanvasHeight \div GridSize + 1)
  /\ activeObject = Null
  /\ currentRoom = Null
  /\ currentWall = Null
  /\ dimensionStart = NoPoint
  /\ isDrawing = FALSE
  /\ startPoint = NoPoint
  /\ selectedObject = Null
  /\ deleteButton = HiddenButton
  /\ isEditingText = FALSE
  /\ contextMenu = HiddenMenu
  /\ roomLabelsRef = NoLabels
  /\ roomCounterRef = 1
  /\ activeTool = "select"
  /\ pageSelectedObject = Null
  /\ clock = 1
  /\ effectPending = FALSE
  /\ bound = [activeTool |-> "select", isDrawing |-> FALSE,
              startPoint |-> NoPoint, selectedObject |-> Null,
              isDragging |-> FALSE, dragStarted |-> FALSE]
  /\ listenerSelected = {Null}
  /\ dblclickHandlers = 1
  /\ mouse = IdleMouse
  /\ editing = Null
  /\ dialog = ClosedDialog
  /\ urls = NoUrls

InitCanvas == InitSurface /\ gesture = NoGesture

\* FloorplanUpload imports @/utils/FloorplanAI, the version without timers
Init == InitCanvas /\ ai = IdleAI

\* the same with room for a second rectangle of the room tool
InitPair == InitSurface /\ gesture = [NoGesture EXCEPT !.rects = MaxRoomPair] /\ ai = IdleAI

\* either version of FloorplanAI
InitUpload == InitCanvas /\ ai \in {[IdleAI EXCEPT !.secured = b] : b \in BOOLEAN}

\* ------------------------------------------------------ the handler effect
\* useEffect(..., [activeTool, fabricCanvas, isDrawing, startPoint,
\*                 onObjectSelect, selectedObject]):
\* the mouse handlers are replaced by ones closing over the current state,
\* with fresh isDragging / dragStarted; the selection and object listeners
\* are added to the ones already registered.
\*
\* After a discrete event (press, release, click, drop, key) React renders
\* and runs the effect before the next event is delivered; after a pointer
\* move the render is only scheduled, and the effect may run at any later
\* time, also after further events.
BoundFrom(s) ==
  [activeTool |-> s.activeTool, isDrawing |-> s.isDrawing,
   startPoint |-> s.startPoint, selectedObject |-> s.selectedObject,
   isDragging |-> FALSE, dragStarted |-> FALSE]

\* end of a discrete event whose handlers left the state s and the
\* closure variables b
CommitDiscrete(s, b) ==
  /\ Commit(s)
  /\ effectPending' = FALSE
  /\ bound' = IF s.dirty THEN BoundFrom(s) ELSE b
  /\ listenerSelected' = IF s.dirty
                         THEN listenerSelected \cup {s.selectedObject}
                         ELSE listenerSelected
  /\ dblclickHandlers' = IF s.dirty
                         THEN Min(dblclickHandlers + 1, MaxHandlers)
                         ELSE dblclickHandlers

\* end of a continuous event
CommitContinuous(s, b) ==
  /\ Commit(s)
  /\ effectPending' = s.dirty
  /\ bound' = b
  /\ UNCHANGED <<listenerSelected, dblclickHandlers>>

Rebind ==
  /\ effectPending
  /\ bound' = BoundFrom(Cur)
  /\ listenerSelected' = listenerSelected \cup {selectedObject}
  /\ dblclickHandlers' = Min(dblclickHandlers + 1, MaxHandlers)
  /\ effectPending' = FALSE
  /\ UNCHANGED <<heap, canvasObjects, gridLineCount, activeObject,
                 currentRoom, currentWall, dimensionStart, isDrawing,
                 startPoint, selectedObject, deleteButton, isEditingText,
                 contextMenu, roomLabelsRef, roomCounterRef, activeTool,
                 pageSelectedObject, clock, mouse, editing, gesture,
                 dialog, ai, urls>>

\* --------------------------------------------------------------- toolbar
\* Index.handleToolChange, from a DesignToolbar button
handleToolChange(tool) ==
  /\ ~mouse.pressed /\ editing = Null
  /\ CommitDiscrete([Cur EXCEPT !.activeTool = tool, !.pageSelected = Null,
                                !.dirty = @ \/ tool # activeTool
                                            \/ pageSelectedObject # Null],
                    bound)
  /\ UNCHANGED <<mouse, gesture>>

\* ---------------------------------------------------------- context menu
showContextMenu(s, x, y, target) ==
  [s EXCEPT !.contextMenu = [isVisible |-> TRUE, x |-> x, y |-> y,
                             target |-> target]]

\* a close that would leave the menu state as it is
hideContextMenuKeepsVisible(s) == s

hideContextMenu(s) == [s EXCEPT !.contextMenu.isVisible = FALSE]

\* ------------------------------------------------------------ mouse:down
Buttons == {"left", "right", "ctrl"}

\* what the surface does with a primary-button press before it fires
\* mouse:down: a press on a selectable object selects it, any other press
\* clears the selection
PressSelection(s, target, button) ==
  IF button = "right" THEN s
  ELSE IF target # Null /\ s.heap[target].selectable
       THEN setActiveObject(s, target)
       ELSE discardActiveObject(s)

\* the room branch of mouse:down: remember the snapped start point only
RoomPressCreatesRect(s, p) ==
  LET s1 == setStartPoint(s, <<snapToGrid(p[1]), snapToGrid(p[2])>>)
      s2 == Alloc(s1, TransientRoomRect(s1.startPoint, s1.clock))
  IN canvasAdd(s2, NewRef(s1))

RoomPress(s, p) ==
  setStartPoint(s, <<snapToGrid(p[1]), snapToGrid(p[2])>>)

\* the wall branch of mouse:down
WallPress(s, p) ==
  LET x  == snapToGrid(p[1])
      y  == snapToGrid(p[2])
      s1 == setStartPoint(setIsDrawing(s, TRUE), <<x, y>>)
      w  == NewRef(s1)
      s2 == canvasAdd(Alloc(s1, WallLine(x, y)), w)
  IN [s2 EXCEPT !.currentWall = w]

\* addDimension: a line and a centred text label
addDimension(s, a, b) ==
  LET l  == NewRef(s)
      s1 == Alloc(s, SetLineEnd(
                       [BlankObject EXCEPT !.kind = "line",
                          !.elementType = "dimension", !.selectable = FALSE,
                          !.x1 = a[1], !.y1 = a[2], !.left = a[1],
                          !.top = a[2]], b[1], b[2]))
      s2 == Alloc(s1, [BlankObject EXCEPT !.kind = "text",
                          !.elementType = "dimension", !.selectable = FALSE,
                          !.left2 = a[1] + b[1], !.top2 = a[2] + b[2] - 20,
                          !.left = (a[1] + b[1]) \div 2,
                          !.top = (a[2] + b[2]) \div 2 - 10])
  IN canvasAdd(canvasAdd(s2, l), l + 1)

\* a dimension branch that would keep the pending start after drawing
DimensionPressKeepsStart(s, p) ==
  LET q == <<snapToGrid(p[1]), snapToGrid(p[2])>>
  IN IF s.dimensionStart = NoPoint
     THEN [s EXCEPT !.dimensionStart = q]
     ELSE addDimension(s, s.dimensionStart, q)

\* the dimension branch of mouse:down: two-click protocol
DimensionPress(s, p) ==
  LET q == <<snapToGrid(p[1]), snapToGrid(p[2])>>
  IN IF s.dimensionStart = NoPoint
     THEN [s EXCEPT !.dimensionStart = q]
     ELSE [addDimension(s, s.dimensionStart, q) EXCEPT
             !.dimensionStart = NoPoint]

\* which branch of the mouse:down handler a press takes
DownBranch(target, button) ==
  IF button # "left" THEN IF target # Null THEN "menu" ELSE "none"
  ELSE IF bound.activeTool = "wall" /\ target = Null THEN "wall"
  ELSE IF bound.activeTool = "room" /\ target = Null THEN "room"
  ELSE IF bound.activeTool = "dimension" THEN "dimension"
  ELSE "none"

MouseDown(p, button) ==
  /\ ~mouse.pressed /\ editing = Null
  /\ LET target == findTarget(Cur, p)
         branch == DownBranch(target, button)
         s0 == PressSelection(Cur, target, button)
         s1 == CASE branch = "menu" -> showContextMenu(s0, p[1], p[2], target)
                 [] branch = "wall" -> WallPress(s0, p)
                 [] branch = "room" -> RoomPress(s0, p)
                 [] branch = "dimension" -> DimensionPress(s0, p)
                 [] OTHER -> s0
         \* the ContextMenu's document listener closes a menu that is open
         s2 == IF contextMenu.isVisible THEN hideContextMenu(s1) ELSE s1
     IN /\ branch = "wall" => CountWalls(heap) < MaxWalls
        /\ (branch = "dimension" /\ dimensionStart # NoPoint)
              => CountDimLines(heap) < MaxDims
        /\ CommitDiscrete(s2, [bound EXCEPT !.isDragging = FALSE,
                                            !.dragStarted = (branch = "wall")])
        /\ mouse' = [mouse EXCEPT
                       !.pressed = TRUE, !.p = p, !.acted = FALSE,
                       !.hover = target,
                       !.transform =
                          IF button # "right" /\ target # Null
                             /\ heap[target].selectable
                          THEN target ELSE Null]
        /\ gesture' = [gesture EXCEPT !.roomPress = (branch = "room"),
                                      !.start = s2.startPoint,
                                      !.moved = FALSE,
                                      !.before = canvasObjects,
                                      !.dimClicks =
                                         IF branch = "dimension"
                                         THEN @ + 1 ELSE @]

\* ------------------------------------------- object:moving / object:scaling
\* some registered object:moving listener captured this object as selected
SomeListenerSelected(target) == target # Null /\ target \in listenerSelected

OnObjectMoving(s, target) ==
  LET s1 == IF SomeListenerSelected(target)
            THEN updateDeleteButtonPosition(s, target) ELSE s
  IN IF s1.heap[target].id # NoId
     THEN updatePersistentRoomDimensions(s1, target) ELSE s1

OnObjectScaling(s, target) ==
  IF s.heap[target].id # NoId
  THEN updatePersistentRoomDimensions(s, target) ELSE s

OnObjectModified(s, target) ==
  IF s.heap[target].id # NoId
  THEN updatePersistentRoomDimensions(s, target) ELSE s

\* the mouse:over listeners: one per run of the effect, none removed
OnMouseOver(s, target) ==
  IF SomeListenerSelected(target)
  THEN updateDeleteButtonPosition(s, target) ELSE s

\* the surface's own move / scale of the pressed object; it changes the
\* object and then fires the event
NativeTransform(s, target, kind, pos, size) ==
  IF kind = "moving"
  THEN OnObjectMoving([s EXCEPT !.heap[target].left = pos[1],
                                !.heap[target].top = pos[2]], target)
  ELSE OnObjectScaling([s EXCEPT !.heap[target].width = size[1],
                                 !.heap[target].height = size[2]], target)

\* Date.now() at a call: the time of the last id handed out, or a later
\* one.  Only whether two ids share their time matters, so a later time
\* is clock + 1, and time does not pass while no id carries the clock.
Ticks ==
  IF \E o \in DOMAIN heap : heap[o].id # NoId /\ heap[o].id[1] = clock
  THEN {clock, clock + 1} ELSE {clock}

\* ------------------------------------------------------------ mouse:move
\* first move of a drag with the room tool: the transient rectangle
StartRoomRect(s, t) ==
  LET sp   == <<snapToGrid(bound.startPoint[1]),
                snapToGrid(bound.startPoint[2])>>
      room == NewRef(s)
      s1   == setIsDrawing(s, TRUE)
      s2   == canvasAdd(Alloc([s1 EXCEPT !.clock = t],
                              TransientRoomRect(sp, t)), room)
      s3   == setActiveObject(s2, room)
      s4   == handleObjectSelect(setSelectedObject(s3, room), room)
  IN [s4 EXCEPT !.currentRoom = room]

\* a resize that would keep the start point as the top-left corner
ResizeRoomRectFromStart(s, room, p) ==
  LET sx == snapToGrid(p[1])
      sy == snapToGrid(p[2])
      s1 == [s EXCEPT
               !.heap[room].width = Abs(sx - bound.startPoint[1]),
               !.heap[room].height = Abs(sy - bound.startPoint[2]),
               !.heap[room].left = bound.startPoint[1],
               !.heap[room].top = bound.startPoint[2]]
  IN updateRoomDimensions(s1, room, bound.startPoint, <<sx, sy>>)

\* room.set({width, height, left, top}) from the start and the pointer
ResizeRoomRect(s, room, p) ==
  LET sx == snapToGrid(p[1])
      sy == snapToGrid(p[2])
      width  == sx - bound.startPoint[1]
      height == sy - bound.startPoint[2]
      s1 == [s EXCEPT
               !.heap[room].width = Abs(width),
               !.heap[room].height = Abs(height),
               !.heap[room].left =
                  IF width < 0 THEN sx ELSE bound.startPoint[1],
               !.heap[room].top =
                  IF height < 0 THEN sy ELSE bound.startPoint[2]]
  IN updateRoomDimensions(s1, room, bound.startPoint, <<sx, sy>>)

\* the part of mouse:move after `if (!isDrawing) return`
MoveDrawing(s, p) ==
  IF ~bound.isDrawing THEN s
  ELSE IF bound.activeTool = "wall"
  THEN IF s.currentWall # Null
       THEN [s EXCEPT !.heap[s.currentWall] =
               SetLineEnd(@, snapToGrid(p[1]), snapToGrid(p[2]))]
       ELSE s
  ELSE IF bound.activeTool = "room"
  THEN IF s.currentRoom # Null /\ bound.startPoint # NoPoint
       THEN ResizeRoomRect(s, s.currentRoom, p)
       ELSE s
  ELSE s

MouseMove(p, t, kind, pos, size) ==
  /\ editing = Null
  /\ LET transforming == mouse.pressed /\ mouse.transform # Null
         s0 == IF transforming
               THEN NativeTransform(Cur, mouse.transform, kind, pos, size)
               ELSE Cur
         target == IF transforming THEN mouse.transform
                   ELSE findTarget(s0, p)
         \* mouse:over fires before mouse:move when the pointer comes
         \* over another object; with no button held the pointer may
         \* have been anywhere before, off the canvas included
         entered == /\ ~transforming /\ target # Null
                    /\ mouse.pressed => target # mouse.hover
         s0h == IF entered THEN OnMouseOver(s0, target) ELSE s0
         startDrag  == bound.startPoint # NoPoint /\ ~bound.isDragging
         createRect == /\ startDrag /\ bound.activeTool = "room"
                       /\ target = Null /\ ~bound.dragStarted
         s1 == IF createRect THEN StartRoomRect(s0h, t) ELSE s0h
         s2 == MoveDrawing(s1, p)
     IN /\ transforming => mouse.steps < MaxTransforms
        /\ ~transforming =>
              kind = "moving" /\ pos = <<60, 60>> /\ size = <<60, 60>>
        /\ (transforming /\ kind = "moving") => size = <<60, 60>>
        /\ (transforming /\ kind = "scaling") => pos = <<60, 60>>
        /\ createRect => CountRoomRects(heap) < gesture.rects
        /\ ~createRect => t = clock
        /\ CommitContinuous(s2, [bound EXCEPT
                                    !.isDragging = @ \/ startDrag,
                                    !.dragStarted = @ \/ createRect])
        /\ mouse' = [mouse EXCEPT
                       !.p = IF mouse.pressed THEN p ELSE @,
                       !.acted = @ \/ transforming,
                       !.hover = IF mouse.pressed /\ ~transforming
                                 THEN target ELSE @,
                       !.steps = IF transforming THEN @ + 1 ELSE @]
        /\ gesture' = [gesture EXCEPT !.moved = @ \/ mouse.pressed]

\* -------------------------------------------------------------- mouse:up
\* a release that was no drag, on empty canvas, with a drawing tool:
\* signal the page to fall back to select and clear the selection
FallBackToSelect(s) ==
  LET s1 == handleObjectSelect(s, SelectSignal)
  IN IF bound.selectedObject # Null
     THEN setDeleteButton(
            setSelectedObject(discardActiveObject(s1), Null), HiddenButton)
     ELSE s1

RoomTags(id, textRef) ==
  [BlankObject EXCEPT !.id = id, !.roomText = textRef, !.isRoom = TRUE]

FinalSize(extent) == Max(MinFinalSize, extent)

\* the room branch of mouse:up: replace the transient rectangle by the
\* grouped room, keep furniture on top, select the room, refresh labels
FinalizeRoom(s, room) ==
  LET r  == s.heap[room]
      s1 == canvasRemove(s, room)
      g  == NewRef(s1) + 2
      s2 == AllocGroup(s1, r.left, r.top, FinalSize(r.width),
                       FinalSize(r.height), s1.roomCounter,
                       RoomTags(r.id, NewRef(s1) + 1))
      s3 == canvasAdd(s2, g)
      s4 == RaiseAllFurniture(s3, Null)
      s5 == setActiveObject(s4, g)
      s6 == handleObjectSelect(setSelectedObject(s5, g), g)
      s7 == [s6 EXCEPT !.roomCounter = @ + 1]
  IN updatePersistentRoomDimensions(s7, g)

\* the tool branches of mouse:up
UpDrawing(s) ==
  IF bound.activeTool = "wall" /\ bound.isDrawing
  THEN [s EXCEPT !.currentWall = Null]
  ELSE IF bound.activeTool = "room" /\ bound.isDrawing
  THEN [(IF s.currentRoom # Null /\ bound.startPoint # NoPoint
         THEN FinalizeRoom(s, s.currentRoom) ELSE s)
        EXCEPT !.currentRoom = Null]
  ELSE s

MouseUp ==
  /\ mouse.pressed /\ editing = Null
  /\ LET transforming == mouse.transform # Null
         s0 == IF transforming /\ mouse.acted
               THEN OnObjectModified(Cur, mouse.transform) ELSE Cur
         target == IF transforming THEN mouse.transform
                   ELSE findTarget(s0, mouse.p)
         s1 == IF /\ ~bound.isDragging /\ target = Null
                  /\ bound.activeTool \notin {"select", "dimension"}
               THEN FallBackToSelect(s0) ELSE s0
         s2 == UpDrawing(s1)
         s3 == setStartPoint(setIsDrawing(s2, FALSE), NoPoint)
     IN CommitDiscrete(s3, bound)
  /\ mouse' = IdleMouse
  /\ gesture' = [gesture EXCEPT
                  !.roomPress = FALSE, !.start = NoPoint,
                  !.moved = FALSE, !.before = <<>>,
                  !.roomClick = gesture.roomPress /\ ~gesture.moved]

\* -------------------------------------------------------- furniture drop
\* a string is the sequence of its characters
Digits == {"0", "1", "2", "3", "4", "5", "6", "7", "8", "9"}

DigitValue(c) == CHOOSE v \in 0..9 : <<"0", "1", "2", "3", "4", "5", "6", "7", "8", "9">>[v + 1] = c

\* parseInt of a run of decimal digits
RECURSIVE parseInt(_)
parseInt(ds) ==
  IF ds = <<>> THEN 0
  ELSE 10 * parseInt(SubSeq(ds, 1, Len(ds) - 1)) + DigitValue(ds[Len(ds)])

\* the first position from `from` on that holds a character of S, 0 if none
FirstAt(str, from, S) ==
  LET hits == {i \in from..Len(str) : str[i] \in S}
  IN IF hits = {} THEN 0 ELSE CHOOSE i \in hits : \A j \in hits : i <= j

\* the last position of the run of digits that starts at i
RunEnd(str, i) ==
  CHOOSE e \in i..Len(str) :
    /\ \A k \in i..e : str[k] \in Digits
    /\ e = Len(str) \/ str[e + 1] \notin Digits

\* str.match(/(\d+).*?x.*?(\d+)/): the two captures, <<>> for null.  The
\* match starts at the first digit, (\d+) takes the whole run, the lazy
\* .*?x stops at the first x after it and the lazy .*?(\d+) at the first
\* digit after that x, whose whole run is captured; when one of them is
\* missing no later start and no backtracking finds a match either.
MatchDimensions(str) ==
  LET i == FirstAt(str, 1, Digits)
  IN IF i = 0 THEN <<>>
     ELSE LET x == FirstAt(str, RunEnd(str, i) + 1, {"x"})
          IN IF x = 0 THEN <<>>
             ELSE LET j == FirstAt(str, x + 1, Digits)
                  IN IF j = 0 THEN <<>>
                     ELSE <<SubSeq(str, i, RunEnd(str, i)),
                            SubSeq(str, j, RunEnd(str, j))>>

\* the dimension strings of two catalog entries, 84" x 36" and 60" x 80"
SofaDimensions == <<"8", "4", "\"", " ", "x", " ", "3", "6", "\"">>
BedDimensions  == <<"6", "0", "\"", " ", "x", " ", "8", "0", "\"">>

\* the 3-Seat Sofa of the catalog
Sofa == [data |-> "entry", name |-> 1, dimensions |-> SofaDimensions]

\* drag payloads: nothing under the key, text that is no JSON, JSON without
\* a dimensions string, two catalog entries, and entries with other
\* dimension strings: wide, 84" and 84 x 36
Payloads ==
  { [data |-> "none",    name |-> 0, dimensions |-> <<>>],
    [data |-> "invalid", name |-> 0, dimensions |-> <<>>],
    [data |-> "nodims",  name |-> 1, dimensions |-> <<>>],
    Sofa,
    [data |-> "entry",   name |-> 2, dimensions |-> BedDimensions],
    [data |-> "entry",   name |-> 3, dimensions |-> <<"w", "i", "d", "e">>],
    [data |-> "entry",   name |-> 3, dimensions |-> <<"8", "4", "\"">>],
    [data |-> "entry",   name |-> 3,
     dimensions |-> <<"8", "4", " ", "x", " ", "3", "6">>] }

\* the payloads that are furniture entries, the one the other
\* specifications drop, and where they are dropped
CatalogEntries == {f \in Payloads : f.data = "entry"}
SizedEntries == {Sofa}
DropPoints == {<<8, 8>>, <<40, 40>>}

FurnitureTags(name, textRef) ==
  [BlankObject EXCEPT !.furnitureData = name, !.furnitureText = textRef,
                      !.isFurniture = TRUE]

\* createFurnitureObjectOnCanvas after the size is known
PlaceFurniture(s, furniture, x, y, width, height) ==
  LET group  == NewRef(s) + 2
      s1 == AllocGroup(s, x, y, width, height, furniture.name,
                       FurnitureTags(furniture.name, NewRef(s) + 1))
      s2 == bringObjectToFront(canvasAdd(s1, group), group)
      s3 == setActiveObject(s2, group)
  IN handleObjectSelect(s3, group)

\* a placeholder that would always get the fallback size
createFurnitureObjectOnCanvasFixedSize(s, furniture, x, y) ==
  PlaceFurniture(s, furniture, x, y, FallbackWidth, FallbackHeight)

createFurnitureObjectOnCanvas(s, furniture, x, y) ==
  LET dimensions == MatchDimensions(furniture.dimensions)
      width  == IF dimensions # <<>>
                THEN parseInt(dimensions[1]) ELSE FallbackWidth
      height == IF dimensions # <<>>
                THEN parseInt(dimensions[2]) ELSE FallbackHeight
  IN PlaceFurniture(s, furniture, x, y, width, height)

\* handleDrop: everything is inside one try / catch
\* (the drag began with a press on the library, which closes an open menu)
handleDrop(f, p) ==
  /\ ~mouse.pressed /\ editing = Null
  /\ ~contextMenu.isVisible
  /\ IF f.data = "entry"
     THEN CommitDiscrete(createFurnitureObjectOnCanvas(
                           Cur, f, snapToGrid(p[1]), snapToGrid(p[2])), bound)
     ELSE CommitDiscrete(Cur, bound)
  /\ gesture' = [gesture EXCEPT !.drops = @ + 1,
                                !.dropToast = (f.data = "entry")]
  /\ UNCHANGED mouse

\* --------------------------------------------------- double-click editing
\* one mouse:dblclick handler, for a composite with a label: ungroup, edit
\* the label, and register an editing:exited listener on the label that
\* closes over this group
OnDblClick(s, group) ==
  LET textObject == IF s.heap[group].furnitureText # Null
                    THEN s.heap[group].furnitureText
                    ELSE s.heap[group].roomText
      objects == s.heap[group].objects
      s1 == [s EXCEPT !.heap[textObject].selectable = TRUE,
                      !.heap[textObject].evented = TRUE]
      s2 == canvasRemove(s1, group)
      s3 == [s2 EXCEPT !.canvas = @ \o objects]
      s4 == setActiveObject(s3, textObject)
  IN [s4 EXCEPT !.isEditingText = TRUE,
                !.editing = textObject,
                !.heap[textObject].exitListeners = Append(@, group)]

\* the effect adds a mouse:dblclick handler each time it runs and removes
\* none: a double-click runs them all, in registration order
RECURSIVE RunDblClickHandlers(_, _, _)
RunDblClickHandlers(s, group, n) ==
  IF n = 0 THEN s
  ELSE RunDblClickHandlers(OnDblClick(s, group), group, n - 1)

\* a double-click on a composite; its first press has selected it
DblClick(group) ==
  /\ ~mouse.pressed /\ editing = Null
  /\ ~contextMenu.isVisible
  /\ gesture.edits < MaxEdits
  /\ group \in SeqToSet(canvasObjects)
  /\ activeObject = group
  /\ heap[group].furnitureText # Null \/ heap[group].roomText # Null
  /\ CommitDiscrete(RunDblClickHandlers(Cur, group, dblclickHandlers), bound)
  /\ gesture' = [gesture EXCEPT !.edits = @ + 1, !.editGroup = group,
                                !.editBefore = canvasObjects]
  /\ UNCHANGED mouse

\* the tags the editing:exited listener puts on the new group
RegroupTags(old, textObject) ==
  IF old.furnitureText # Null
  THEN [BlankObject EXCEPT !.furnitureText = textObject,
                           !.furnitureData = old.furnitureData]
  ELSE [BlankObject EXCEPT !.roomText = textObject, !.id = old.id,
                           !.isRoom = TRUE]

\* one editing:exited listener, registered for `group`: regroup the
\* rectangle and the label.  new Group([rect, text]) takes the two objects
\* out of the group they were in, which is the array `objects` refers to.
Regroup(s, group, textObject) ==
  LET rect == s.heap[group].objects[1]
      new  == NewRef(s)
      r    == s.heap[rect]
      s1 == [s EXCEPT !.heap[textObject].selectable = FALSE,
                      !.heap[textObject].evented = FALSE]
      s2 == Alloc(s1, [RegroupTags(s1.heap[group], textObject) EXCEPT
                         !.kind = "group", !.left = r.left, !.top = r.top,
                         !.width = r.width, !.height = r.height,
                         !.objects = <<rect, textObject>>])
      s3 == [s2 EXCEPT !.heap[group].objects = <<>>]
      s4 == canvasRemove(canvasRemove(s3, rect), textObject)
  IN setActiveObject(canvasAdd(s4, new), new)

\* the listeners run in registration order; one whose group has lost its
\* objects reads rect.left of undefined and ends the dispatch
RECURSIVE RunExitListeners(_, _, _, _)
RunExitListeners(s, listeners, i, textObject) ==
  IF i > Len(listeners) THEN s
  ELSE LET s1 == [s EXCEPT !.isEditingText = FALSE]
       IN IF s1.heap[listeners[i]].objects = <<>> THEN s1
          ELSE RunExitListeners(Regroup(s1, listeners[i], textObject),
                                listeners, i + 1, textObject)

\* the user leaves the text editor
EditingExited ==
  /\ editing # Null
  /\ CommitDiscrete(RunExitListeners([Cur EXCEPT !.editing = Null],
                                     heap[editing].exitListeners, 1,
                                     editing), bound)
  /\ gesture' = [gesture EXCEPT !.editGroup = Null, !.editBefore = <<>>]
  /\ UNCHANGED mouse

\* ----------------------------------------------------------- delete button
handleDeleteObject ==
  /\ deleteButton.show
  /\ ~mouse.pressed /\ editing = Null
  /\ IF selectedObject # Null
     THEN LET s1 == IF heap[selectedObject].id # NoId
                    THEN removeRoomDimensionLabels(Cur,
                                                   heap[selectedObject].id)
                    ELSE Cur
              s2 == discardActiveObject(canvasRemove(s1, selectedObject))
              s3 == setDeleteButton(setSelectedObject(s2, Null), HiddenButton)
          IN CommitDiscrete(handleObjectSelect(s3, Null), bound)
     ELSE CommitDiscrete(Cur, bound)
  /\ UNCHANGED <<mouse, gesture>>

\* ------------------------------------------------------ context menu items
handleBringToFront(s) ==
  LET target == s.contextMenu.target
  IN IF target = Null THEN s
     ELSE LET s1 == bringObjectToFront(s, target)
          IN IF s1.heap[target].isFurniture
             THEN bringObjectToFront(RaiseAllFurniture(s1, target), target)
             ELSE s1

handleSendToBack(s) ==
  LET target == s.contextMenu.target
  IN IF target = Null THEN s
     ELSE IF s.heap[target].isFurniture
     THEN LET furnitureObjects ==
                SelectSeq(s.canvas, LAMBDA o : s.heap[o].isFurniture)
              targetIndex == IndexOf(furnitureObjects, target)
              s1 == IF targetIndex > 1
                    THEN sendObjectBackwards(s, target) ELSE s
          IN RaiseAllFurniture(s1, Null)
     ELSE sendObjectToBack(s, target)

\* a menu button: the item's handler, then onClose
MenuBringToFront ==
  /\ contextMenu.isVisible /\ ~mouse.pressed /\ editing = Null
  /\ CommitDiscrete(hideContextMenu(handleBringToFront(Cur)), bound)
  /\ UNCHANGED <<mouse, gesture>>

MenuSendToBack ==
  /\ contextMenu.isVisible /\ ~mouse.pressed /\ editing = Null
  /\ CommitDiscrete(hideContextMenu(handleSendToBack(Cur)), bound)
  /\ UNCHANGED <<mouse, gesture>>

\* Escape, or a press outside the menu and outside the canvas
MenuClose ==
  /\ contextMenu.isVisible /\ ~mouse.pressed
  /\ CommitDiscrete(hideContextMenu(Cur), bound)
  /\ UNCHANGED <<mouse, gesture>>

\* ------------------------------------------------------------ clear canvas
\* canvas.clear() drops the selection and every object, grid included
canvasClear(s) ==
  [discardActiveObject(s) EXCEPT !.canvas = <<>>, !.grid = 0]

\* a variant that also starts the room numbers again
clearCanvasResetsCounter(s) == [addGridToCanvas(canvasClear(s)) EXCEPT !.roomCounter = 1]

clearCanvas(s) == addGridToCanvas(canvasClear(s))

\* Index.handleClear, from the toolbar's Clear button
handleClear ==
  /\ ~mouse.pressed /\ editing = Null
  /\ CommitDiscrete(clearCanvas(
       [Cur EXCEPT !.pageSelected = Null, !.activeTool = "select",
                   !.dirty = @ \/ activeTool # "select"
                               \/ pageSelectedObject # Null]), bound)
  /\ UNCHANGED <<mouse, gesture>>

\* ------------------------------------------------------ FloorplanGenerator
\* layouts handed to the generator: elements with their coordinates in
\* image pixels, and the image dimensions
Element(type, x, y, w, h) ==
  [type |-> type, x |-> x, y |-> y, width |-> w, height |-> h]

Layouts ==
  { [elements |-> <<Element("room", 0, 0, 200, 100)>>,
     dimensions |-> <<960, 640>>],
    [elements |-> <<Element("room", 0, 0, 200, 100),
                    Element("room", 240, 0, 8, 100)>>,
     dimensions |-> <<960, 640>>],
    [elements |-> <<Element("wall", 0, 0, 200, 0),
                    Element("room", 0, 0, 200, 100),
                    Element("door", 100, 0, 4, 4)>>,
     dimensions |-> <<1920, 640>>] }

\* clearCanvasContent: every object without the isGridLine tag is removed;
\* the grid lines are created without that tag
RECURSIVE RemoveAll(_, _, _)
RemoveAll(s, snapshot, i) ==
  IF i > Len(snapshot) THEN s
  ELSE RemoveAll(canvasRemove(s, snapshot[i]), snapshot, i + 1)

clearCanvasContent(s) == [RemoveAll(s, s.canvas, 1) EXCEPT !.grid = 0]

\* calculateScaleFactor, as the fraction <<numerator, denominator>>:
\* min(0.8 * canvasWidth / width, 0.8 * canvasHeight / height)
calculateScaleFactor(dimensions) ==
  LET nx == (8 * CanvasWidth) \div 10
      ny == (8 * CanvasHeight) \div 10
  IN IF nx * dimensions[2] <= ny * dimensions[1]
     THEN <<nx, dimensions[1]>> ELSE <<ny, dimensions[2]>>

\* scaleCoordinates followed by the generator's snapToGrid(coords, 20)
ScaleAndSnap(c, f) == RoundDiv(c * f[1], f[2] * GridSize) * GridSize

RECURSIVE generateRoomsFrom(_, _, _, _, _, _)
generateRoomsFrom(s, elements, i, f, t, roomCounter) ==
  IF i > Len(elements) THEN s
  ELSE IF elements[i].type # "room"
  THEN generateRoomsFrom(s, elements, i + 1, f, t, roomCounter)
  ELSE LET e  == elements[i]
           x  == ScaleAndSnap(e.x, f) + GenOffset
           y  == ScaleAndSnap(e.y, f) + GenOffset
           g  == NewRef(s) + 2
           s1 == AllocGroup(s, x, y, ScaleAndSnap(e.width, f),
                            ScaleAndSnap(e.height, f), roomCounter,
                            RoomTags(RoomId(t, roomCounter), NewRef(s) + 1))
       IN generateRoomsFrom(canvasAdd(s1, g), elements, i + 1, f, t,
                            roomCounter + 1)

generateRooms(s, elements, f, t) ==
  generateRoomsFrom(s, elements, 1, f, t, 1)

RECURSIVE generateWallsFrom(_, _, _, _)
generateWallsFrom(s, elements, i, f) ==
  IF i > Len(elements) THEN s
  ELSE IF elements[i].type # "wall"
  THEN generateWallsFrom(s, elements, i + 1, f)
  ELSE LET e == elements[i]
           x == ScaleAndSnap(e.x, f) + GenOffset
           y == ScaleAndSnap(e.y, f) + GenOffset
           w == NewRef(s)
           s1 == Alloc(s, SetLineEnd(WallLine(x, y),
                                     x + ScaleAndSnap(e.width, f),
                                     y + ScaleAndSnap(e.height, f)))
       IN generateWallsFrom(canvasAdd(s1, w), elements, i + 1, f)

RECURSIVE generateDoorsAndWindowsFrom(_, _, _, _)
generateDoorsAndWindowsFrom(s, elements, i, f) ==
  IF i > Len(elements) THEN s
  ELSE IF elements[i].type \notin {"door", "window"}
  THEN generateDoorsAndWindowsFrom(s, elements, i + 1, f)
  ELSE LET e == elements[i]
           g == NewRef(s) + 2
           s1 == AllocGroup(s, ScaleAndSnap(e.x, f) + GenOffset,
                            ScaleAndSnap(e.y, f) + GenOffset,
                            Max(ScaleAndSnap(e.width, f), GridSize),
                            Max(ScaleAndSnap(e.height, f), GridSize), 0,
                            [BlankObject EXCEPT !.elementType = e.type])
       IN generateDoorsAndWindowsFrom(canvasAdd(s1, g), elements, i + 1, f)

generateCanvasFromFloorplan(layout, t) ==
  /\ ~mouse.pressed /\ editing = Null
  /\ gesture.generated < MaxGens
  /\ LET f  == calculateScaleFactor(layout.dimensions)
         s1 == clearCanvasContent(Cur)
         s2 == generateRooms([s1 EXCEPT !.clock = t], layout.elements, f, t)
         s3 == generateWallsFrom(s2, layout.elements, 1, f)
     IN CommitDiscrete(
          generateDoorsAndWindowsFrom(s3, layout.elements, 1, f), bound)
  /\ gesture' = [gesture EXCEPT !.generated = @ + 1]
  /\ UNCHANGED mouse

\* ---------------------------------------------------------- dataValidator
\* A JavaScript array is a record with a length field and its items; the
\* coordinates FloorplanAI builds are an object with x, y, width, height.
IsArray(value) == "length" \in DOMAIN value

\* sanitizeNumber; ok = FALSE is null
sanitizeNumber(value, min, max) ==
  IF value < min \/ value > max THEN [ok |-> FALSE, num |-> 0]
  ELSE [ok |-> TRUE, num |-> value]

ValidTypes == {"room", "wall", "door", "window"}
MinCoordinates == 4       \* coordinates.length < 4
MaxCoordinates == 8       \* coordinates.slice(0, 8)
CoordinateRange == 10000  \* sanitizeNumber(coord, -10000, 10000)
MinDimension == 100       \* sanitizeNumber(width, 100, 10000)
MaxScale == 1000          \* sanitizeNumber(data.scale, 1, 1000)

\* validateFloorplanElement; Dropped is null
validateFloorplanElement(element) ==
  IF element.type \notin ValidTypes THEN Dropped
  ELSE IF ~IsArray(element.coordinates) THEN Dropped
  ELSE LET coordinates ==
             SelectSeq(element.coordinates.items,
                       LAMBDA coord : sanitizeNumber(coord, -CoordinateRange, CoordinateRange).ok)
       IN IF Len(coordinates) < MinCoordinates THEN Dropped
          ELSE [type |-> element.type,
                coordinates |-> [length |-> Min(MaxCoordinates, Len(coordinates)),
                                 items |-> SubSeq(coordinates, 1, Min(MaxCoordinates, Len(coordinates)))],
                label |-> element.label,
                confidence |-> Max(0, Min(100, element.confidence))]

\* validateFloorplanData, for the object analyzeFloorplan returns
validateFloorplanData(data) ==
  LET mapped == [i \in 1..Len(data.elements) |-> validateFloorplanElement(data.elements[i])]
      width == sanitizeNumber(data.dimensions.width, MinDimension, CoordinateRange)
      height == sanitizeNumber(data.dimensions.height, MinDimension, CoordinateRange)
      scale == sanitizeNumber(data.scale, 1, MaxScale)
  IN [elements |-> SelectSeq(mapped, LAMBDA e : e # Dropped),
      dimensions |-> IF width.ok /\ height.ok
                     THEN [width |-> width.num, height |-> height.num]
                     ELSE [width |-> 0, height |-> 0],
      scale |-> IF scale.ok THEN scale.num ELSE DefaultScale]

\* ------------------------------------------------------------ object URLs
\* URL.createObjectURL: the URL made is number urlStore.made + 1
createObjectURL(urlStore, use) ==
  [made |-> urlStore.made + 1,
   live |-> urlStore.live \cup {[n |-> urlStore.made + 1, use |-> use]}]

\* URL.revokeObjectURL
revokeObjectURL(urlStore, n) ==
  [urlStore EXCEPT !.live = {u \in @ : u.n # n}]

\* ---------------------------------------------------------- upload dialog
canvasVars == <<heap, canvasObjects, gridLineCount, activeObject, currentRoom, currentWall, dimensionStart, isDrawing, startPoint, selectedObject, deleteButton, isEditingText, contextMenu, roomLabelsRef, roomCounterRef, activeTool, pageSelectedObject, clock, effectPending, bound, listenerSelected, dblclickHandlers, mouse, editing, gesture>>

\* the parent shows the dialog (isOpen)
OpenUpload ==
  /\ ~dialog.isOpen
  /\ dialog' = [dialog EXCEPT !.isOpen = TRUE]
  /\ UNCHANGED <<ai, urls>>
  /\ UNCHANGED canvasVars

\* FloorplanUpload.handleFileSelect, from the file input or from a drop on
\* the dialog; inTime: the image settles before the content timer.  The
\* URL validateImageContent makes is revoked before validateFile returns.
handleFileSelect(selectedFile, inTime) ==
  LET validationResult == validateFile(selectedFile, inTime)
      sanitizedFile == validationResult.sanitizedFile
      made == createObjectURL(urls, "preview")
  IN /\ dialog.isOpen
     /\ IF ~validationResult.isValid
        THEN /\ dialog' = [dialog EXCEPT !.toast = "error", !.selects = @ + 1]
             /\ urls' = urls
        ELSE IF sanitizedFile.type \in MimeImage
        THEN /\ dialog' = [dialog EXCEPT !.file = sanitizedFile,
                                         !.previewUrl = made.made,
                                         !.toast = "success", !.selects = @ + 1]
             /\ urls' = made
        ELSE /\ dialog' = [dialog EXCEPT !.file = sanitizedFile,
                                         !.previewUrl = Null,
                                         !.toast = "success", !.selects = @ + 1]
             /\ urls' = urls
     /\ UNCHANGED ai
     /\ UNCHANGED canvasVars

\* FloorplanUpload.handleClose: Cancel, Escape or a click outside
handleClose ==
  /\ dialog.isOpen
  /\ urls' = IF dialog.previewUrl # Null THEN revokeObjectURL(urls, dialog.previewUrl)
             ELSE urls
  /\ dialog' = [dialog EXCEPT !.file = NoFile, !.previewUrl = Null,
                              !.isAnalyzing = FALSE, !.isOpen = FALSE]
  /\ UNCHANGED ai
  /\ UNCHANGED canvasVars

\* handleAnalyze after analyzeFloorplan returned result
AfterAnalysis(d, result) ==
  IF result.success
  THEN [d EXCEPT !.toast = "success",
                 !.delivered = validateFloorplanData(result.data),
                 !.isOpen = FALSE, !.isAnalyzing = FALSE]
  ELSE [d EXCEPT !.toast = "error", !.isAnalyzing = FALSE]

\* analyzeFloorplan returns result: the state of the class afterwards
Returns(a, result) ==
  [a EXCEPT !.pending = "none", !.imageUrl = Null, !.result = result,
            !.returned = @ + 1]

\* initializeModels; init: which pipeline fails to load, if any
initializeModels(a, init) ==
  IF ~a.objectDetector /\ init = "detector" THEN [ready |-> FALSE, ai |-> a]
  ELSE IF ~a.imageSegmenter /\ init = "segmenter"
       THEN [ready |-> FALSE, ai |-> [a EXCEPT !.objectDetector = TRUE]]
       ELSE [ready |-> TRUE,
             ai |-> [a EXCEPT !.objectDetector = TRUE, !.imageSegmenter = TRUE]]

InitOutcomes == {"ok", "detector", "segmenter"}

PdfPage == [width |-> 600, height |-> 800]   \* page.getViewport at scale 1

\* FloorplanUpload.handleAnalyze with FloorplanAI.analyzeFloorplan up to
\* the first inference call.  converts: the PDF renders; loads: the image
\* loads; init: as in initializeModels.
handleAnalyze(converts, loads, init) ==
  LET file == dialog.file
      isPdf == file.type \notin MimeImage
      d == [dialog EXCEPT !.isAnalyzing = TRUE, !.analyses = @ + 1]
      pdfUrl == createObjectURL(urls, "pdf")
      converted == IF isPdf THEN revokeObjectURL(pdfUrl, pdfUrl.made) ELSE urls
      image == IF isPdf THEN [width |-> PdfPage.width * PdfScale,
                              height |-> PdfPage.height * PdfScale]
               ELSE [width |-> file.image.width, height |-> file.image.height]
      input == createObjectURL(converted, "input")
      imageUrl == input.made
      models == initializeModels(ai, init)
      tooLarge == ai.secured /\ (image.width > MaxImageSide \/ image.height > MaxImageSide)
  IN /\ dialog.isOpen
     /\ dialog.file # NoFile
     /\ ~dialog.isAnalyzing
     /\ ai.pending = "none"
     /\ dialog.analyses < MaxAnalyses
     /\ IF isPdf /\ ~converts
        THEN /\ urls' = pdfUrl
             /\ ai' = Returns(ai, Failure("Failed to process PDF"))
             /\ dialog' = AfterAnalysis(d, Failure("Failed to process PDF"))
        ELSE IF ~loads
        THEN /\ urls' = input
             /\ ai' = Returns(ai, Failure("Unknown error occurred"))
             /\ dialog' = AfterAnalysis(d, Failure("Unknown error occurred"))
        ELSE IF ~models.ready \/ tooLarge
        THEN /\ urls' = revokeObjectURL(input, imageUrl)
             /\ ai' = Returns(models.ai, Success(Fallback(image)))
             /\ dialog' = AfterAnalysis(d, Success(Fallback(image)))
        ELSE /\ urls' = input
             /\ ai' = [models.ai EXCEPT !.pending = "detection",
                                        !.imageUrl = imageUrl, !.image = image]
             /\ dialog' = d
     /\ UNCHANGED canvasVars

\* analyzeFloorplan after performAnalysis returned data
Analyzed(data) ==
  /\ urls' = revokeObjectURL(urls, ai.imageUrl)
  /\ ai' = Returns(ai, Success(data))
  /\ dialog' = AfterAnalysis(dialog, Success(data))
  /\ UNCHANGED canvasVars

\* this.objectDetector(imageUrl) resolves
DetectorResolves(objectResults) ==
  /\ ai.pending = "detection"
  /\ ai' = [ai EXCEPT !.pending = "segmentation", !.objectResults = objectResults]
  /\ UNCHANGED <<dialog, urls>>
  /\ UNCHANGED canvasVars

\* this.objectDetector(imageUrl) rejects
DetectorRejects ==
  /\ ai.pending = "detection"
  /\ Analyzed(Fallback(ai.image))

\* the timer raced against the detector fires (src/unnamed/part_004 only)
DetectionTimeout ==
  /\ ai.pending = "detection"
  /\ ai.secured
  /\ Analyzed(Fallback(ai.image))

\* this.imageSegmenter(imageUrl) resolves
SegmenterResolves ==
  /\ ai.pending = "segmentation"
  /\ Analyzed(Analysed(ai.objectResults, ai.image, ai.secured))

\* this.imageSegmenter(imageUrl) rejects
SegmenterRejects ==
  /\ ai.pending = "segmentation"
  /\ Analyzed(Fallback(ai.image))

\* the timer raced against the segmenter fires (src/unnamed/part_004 only)
SegmentationTimeout ==
  /\ ai.pending = "segmentation"
  /\ ai.secured
  /\ Analyzed(Fallback(ai.image))

\* ------------------------------------------------------------ specification
\* Every operation, with every input.
Next ==
  \/ Rebind
  \/ \E tool \in Tools : handleToolChange(tool)
  \/ \E p \in Points, b \in Buttons : MouseDown(p, b)
  \/ \E p \in Points, t \in Ticks,
        kind \in {"moving", "scaling"}, pos \in MovePos, size \in ScaleSize :
        MouseMove(p, t, kind, pos, size)
  \/ MouseUp
  \/ \E f \in Payloads, p \in Points :
        gesture.drops < MaxStack /\ handleDrop(f, p)
  \/ \E g \in DOMAIN heap : DblClick(g)
  \/ EditingExited
  \/ handleDeleteObject
  \/ MenuBringToFront
  \/ MenuSendToBack
  \/ MenuClose
  \/ handleClear
  \/ \E l \in Layouts, t \in Ticks : generateCanvasFromFloorplan(l, t)
  \/ OpenUpload
  \/ \E f \in Files, inTime \in BOOLEAN :
        dialog.selects < MaxSelects /\ handleFileSelect(f, inTime)
  \/ handleClose
  \/ \E converts \in BOOLEAN, loads \in BOOLEAN, init \in InitOutcomes :
        handleAnalyze(converts, loads, init)
  \/ \E r \in ObjectResults : DetectorResolves(r)
  \/ DetectorRejects
  \/ DetectionTimeout
  \/ SegmenterResolves
  \/ SegmenterRejects
  \/ SegmentationTimeout

Spec == Init /\ [][Next]_vars

\* Drawing rooms, moving and resizing them, deleting, clearing: the select
\* and room tools, primary button.
NextRooms ==
  \/ Rebind
  \/ \E tool \in {"select", "room"} : handleToolChange(tool)
  \/ \E p \in Points : MouseDown(p, "left")
  \/ \E p \in Points, t \in Ticks,
        kind \in {"moving", "scaling"}, pos \in MovePos, size \in ScaleSize :
        MouseMove(p, t, kind, pos, size)
  \/ MouseUp
  \/ handleDeleteObject
  \/ handleClear

SpecRooms == Init /\ [][NextRooms]_vars

\* Drawing two rooms one after the other, deleting and clearing.
NextPair ==
  \/ Rebind
  \/ handleToolChange("room")
  \/ \E p \in DropPoints : MouseDown(p, "left")
  \/ \E p \in Points, t \in Ticks :
        MouseMove(p, t, "moving", <<60, 60>>, <<60, 60>>)
  \/ MouseUp
  \/ handleDeleteObject
  \/ handleClear

SpecPair == InitPair /\ [][NextPair]_vars

\* Drawing one room with the room tool, the drag going any of the four
\* ways: the corners of a grid cell two spacings wide, and a point that
\* snaps to one of them.
DrawPoints == {<<0, 0>>, <<40, 0>>, <<0, 40>>, <<40, 40>>, <<8, 8>>}

NextDraw ==
  \/ Rebind
  \/ handleToolChange("room")
  \/ \E p \in DrawPoints : MouseDown(p, "left")
  \/ \E p \in DrawPoints, t \in Ticks :
        MouseMove(p, t, "moving", <<60, 60>>, <<60, 60>>)
  \/ MouseUp

SpecDraw == Init /\ [][NextDraw]_vars

\* Pressing with the wall and the room tool at every pixel of a stretch of
\* the canvas, and dragging a wall to every pixel of a stretch that goes
\* past the canvas edge (a drag may leave the canvas, a press may not).
\* Both coordinates of a point run through the stretch, in opposite ways.
SnapCoords == -30 .. 50
SnapPoints == {<<c, 20 - c>> : c \in SnapCoords}
PressPoints == {p \in SnapPoints : p[1] >= 0 /\ p[2] >= 0}

NextSnap ==
  \/ \E tool \in {"wall", "room"} : handleToolChange(tool)
  \/ \E p \in PressPoints : MouseDown(p, "left")
  \/ \E p \in SnapPoints :
        /\ bound.activeTool = "wall"
        /\ MouseMove(p, clock, "moving", <<60, 60>>, <<60, 60>>)
  \/ MouseUp

SpecSnap == Init /\ [][NextSnap]_vars

\* Two furniture drops with a wall drawn before, between or after them,
\* and the context menu's send-to-back.
NextBetween ==
  \/ \E tool \in {"select", "wall"} : handleToolChange(tool)
  \/ \E p \in Points, b \in {"left", "right"} : MouseDown(p, b)
  \/ MouseUp
  \/ \E f \in SizedEntries, p \in DropPoints :
        gesture.drops < MaxStack /\ handleDrop(f, p)
  \/ MenuSendToBack
  \/ MenuClose

SpecBetween == Init /\ [][NextBetween]_vars

\* Furniture drops, room draws, selections and the context menu: the select
\* and room tools, primary and secondary button.
NextLayer ==
  \/ Rebind
  \/ \E tool \in {"select", "room"} : handleToolChange(tool)
  \/ \E p \in Points, b \in {"left", "right"} : MouseDown(p, b)
  \/ \E p \in Points, t \in Ticks :
        MouseMove(p, t, "moving", <<60, 60>>, <<60, 60>>)
  \/ MouseUp
  \/ \E f \in SizedEntries, p \in DropPoints :
        gesture.drops < MaxDrops /\ handleDrop(f, p)
  \/ MenuBringToFront
  \/ MenuSendToBack
  \/ MenuClose

SpecLayer == Init /\ [][NextLayer]_vars

\* Label edits of rooms and furniture.
NextEdit ==
  \/ Rebind
  \/ \E tool \in {"select", "room"} : handleToolChange(tool)
  \/ \E p \in Points : MouseDown(p, "left")
  \/ \E p \in Points, t \in Ticks :
        MouseMove(p, t, "moving", <<60, 60>>, <<60, 60>>)
  \/ MouseUp
  \/ \E f \in SizedEntries, p \in DropPoints :
        gesture.drops < MaxDrops /\ handleDrop(f, p)
  \/ \E g \in DOMAIN heap : DblClick(g)
  \/ EditingExited

SpecEdit == Init /\ [][NextEdit]_vars

\* Generated layouts next to rooms drawn by hand.
NextGen ==
  \/ Rebind
  \/ \E tool \in {"select", "room"} : handleToolChange(tool)
  \/ \E p \in Points : MouseDown(p, "left")
  \/ \E p \in Points, t \in Ticks :
        MouseMove(p, t, "moving", <<60, 60>>, <<60, 60>>)
  \/ MouseUp
  \/ handleClear
  \/ \E l \in Layouts, t \in Ticks : generateCanvasFromFloorplan(l, t)

SpecGen == Init /\ [][NextGen]_vars

\* The stack of a generated layout and two pieces of furniture: clicks,
\* label edits and the context menu with the select tool, no pointer moves.
NextStack ==
  \/ \E p \in DropPoints, b \in {"left", "right"} : MouseDown(p, b)
  \/ MouseUp
  \/ \E f \in SizedEntries, p \in DropPoints :
        gesture.drops < MaxStack /\ handleDrop(f, p)
  \/ \E g \in DOMAIN heap : DblClick(g)
  \/ EditingExited
  \/ MenuBringToFront
  \/ MenuSendToBack
  \/ MenuClose
  \/ \E l \in Layouts, t \in Ticks : generateCanvasFromFloorplan(l, t)

SpecStack == Init /\ [][NextStack]_vars

\* Clicks with every button in every tool, one furniture drop and the
\* context menu; no pointer moves.
NextMenu ==
  \/ \E tool \in Tools : handleToolChange(tool)
  \/ \E p \in DropPoints, b \in Buttons : MouseDown(p, b)
  \/ MouseUp
  \/ \E f \in SizedEntries, p \in DropPoints :
        gesture.drops < MaxDrops /\ handleDrop(f, p)
  \/ MenuBringToFront
  \/ MenuSendToBack
  \/ MenuClose

SpecMenu == Init /\ [][NextMenu]_vars

\* Furniture drops with every payload, clicks, deleting and clearing, with
\* the select tool.
NextDrop ==
  \/ \E f \in Payloads, p \in Points :
        gesture.drops < MaxStack /\ handleDrop(f, p)
  \/ \E p \in DropPoints : MouseDown(p, "left")
  \/ MouseUp
  \/ handleDeleteObject
  \/ handleClear

SpecDrop == Init /\ [][NextDrop]_vars

\* The dimension tool: presses with every button anywhere on the canvas,
\* with the select and the dimension tool.
NextDims ==
  \/ \E tool \in {"select", "dimension"} : handleToolChange(tool)
  \/ \E p \in Points, b \in Buttons : MouseDown(p, b)
  \/ MouseUp
  \/ MenuClose

SpecDims == Init /\ [][NextDims]_vars

\* The upload dialog and the analysis, with either version of FloorplanAI.
NextUpload ==
  \/ OpenUpload
  \/ \E f \in AnalysedFiles, inTime \in BOOLEAN :
        dialog.selects < MaxSelects /\ handleFileSelect(f, inTime)
  \/ handleClose
  \/ \E converts \in BOOLEAN, loads \in BOOLEAN, init \in InitOutcomes :
        handleAnalyze(converts, loads, init)
  \/ \E r \in ObjectResults : DetectorResolves(r)
  \/ DetectorRejects
  \/ DetectionTimeout
  \/ SegmenterResolves
  \/ SegmenterRejects
  \/ SegmentationTimeout

SpecUpload == InitUpload /\ [][NextUpload]_vars

\* A timer that was set fires unless the call it is raced against settles
\* first; nothing makes the detector or the segmenter settle.
SpecUploadFair ==
  /\ InitUpload /\ [][NextUpload]_vars
  /\ WF_vars(DetectionTimeout) /\ WF_vars(SegmentationTimeout)

\* Choosing files in the upload dialog and dismissing it.
NextSelect ==
  \/ OpenUpload
  \/ \E f \in Files, inTime \in BOOLEAN :
        dialog.selects < MaxPicks /\ handleFileSelect(f, inTime)
  \/ handleClose

SpecSelect == Init /\ [][NextSelect]_vars

\* ------------------------------------------------------------ properties
\* what the properties below speak about
RoomObjects(canv, h) == {o \in SeqToSet(canv) : h[o].isRoom}

LabelsOn(canv, h, id, type) ==
  {o \in SeqToSet(canv) : /\ h[o].isDimensionLabel
                          /\ h[o].roomId = id
                          /\ h[o].dimensionType = type}

LabelIds(h) == {h[o].roomId : o \in {l \in DOMAIN h : h[l].isDimensionLabel}}

\* ids with a width label and a height label on the surface
SurfacePairs(canv, h) ==
  {id \in LabelIds(h) : /\ LabelsOn(canv, h, id, "width") # {}
                        /\ LabelsOn(canv, h, id, "height") # {}}

\* C1: in every reachable state every object tagged as furniture has a
\* higher draw-order index than every object tagged as a room.
C1_FurnitureAboveRooms ==
  \A i, j \in 1..Len(canvasObjects) :
     (heap[canvasObjects[i]].isFurniture /\ heap[canvasObjects[j]].isRoom)
        => i > j

\* C2: the label upsert keeps at most one width label and one height label
\* per room identifier, and what is on the surface for an identifier is the
\* registered pair; the first call for an identifier registers two new
\* objects and puts them on the surface; while an identifier stays
\* registered every later call keeps the same two objects and adds no label
\* for it; a call repeated with identical bounds (object:modified at the
\* release, after the last object:moving / object:scaling) leaves the two
\* objects as they are.
C2_OnePairPerId ==
  \A id \in LabelIds(heap) :
     /\ Cardinality(LabelsOn(canvasObjects, heap, id, "width")) <= 1
     /\ Cardinality(LabelsOn(canvasObjects, heap, id, "height")) <= 1
     /\ LabelsOn(canvasObjects, heap, id, "width") # {}
           => /\ id \in DOMAIN roomLabelsRef
              /\ LabelsOn(canvasObjects, heap, id, "width")
                    = {roomLabelsRef[id].width}
     /\ LabelsOn(canvasObjects, heap, id, "height") # {}
           => /\ id \in DOMAIN roomLabelsRef
              /\ LabelsOn(canvasObjects, heap, id, "height")
                    = {roomLabelsRef[id].height}

C2_Registered(id) ==
  /\ roomLabelsRef'[id].width \notin DOMAIN heap
  /\ roomLabelsRef'[id].height \notin DOMAIN heap
  /\ roomLabelsRef'[id].width # roomLabelsRef'[id].height
  /\ LabelsOn(canvasObjects', heap', id, "width")
        = {roomLabelsRef'[id].width}
  /\ LabelsOn(canvasObjects', heap', id, "height")
        = {roomLabelsRef'[id].height}

C2_KeptInPlace(id) ==
  /\ roomLabelsRef'[id] = roomLabelsRef[id]
  /\ LabelsOn(canvasObjects', heap', id, "width")
        \subseteq LabelsOn(canvasObjects, heap, id, "width")
  /\ LabelsOn(canvasObjects', heap', id, "height")
        \subseteq LabelsOn(canvasObjects, heap, id, "height")

C2_RepeatedCall ==
  /\ mouse.pressed /\ ~mouse'.pressed
  /\ mouse.transform # Null /\ mouse.acted
  /\ heap[mouse.transform].id \in DOMAIN roomLabelsRef
  /\ heap[mouse.transform].width > LabelMinSize
  /\ heap[mouse.transform].height > LabelMinSize

C2_Step ==
  /\ \A id \in DOMAIN roomLabelsRef' :
        IF id \in DOMAIN roomLabelsRef
        THEN C2_KeptInPlace(id) ELSE C2_Registered(id)
  /\ C2_RepeatedCall =>
        LET pair == roomLabelsRef[heap[mouse.transform].id]
        IN /\ heap'[pair.width] = heap[pair.width]
           /\ heap'[pair.height] = heap[pair.height]
           /\ Len(canvasObjects') = Len(canvasObjects)

\* C2: creating the labels of a room id is an upsert: every id has at most one
\* width label and one height label on the surface and in the index, and a
\* repeated call for a registered id updates the pair in place, adding nothing.
C2_LabelUpsert == []C2_OnePairPerId /\ [][C2_Step]_vars

\* a room that was drawn with labels, finalized and then moved: its pair
\* was created during the draw and has been updated in place since
C2_UpsertRepeated ==
  \E g \in SeqToSet(canvasObjects) :
     /\ heap[g].kind = "group" /\ heap[g].isRoom
     /\ heap[g].id \in DOMAIN roomLabelsRef
     /\ heap[g].left = 60
     /\ LET pair == roomLabelsRef[heap[g].id]
        IN /\ pair.width < g
           /\ LabelsOn(canvasObjects, heap, heap[g].id, "width")
                 = {pair.width}
           /\ LabelsOn(canvasObjects, heap, heap[g].id, "height")
                 = {pair.height}
           /\ heap[pair.width].left2
                 = WidthLabelLeft2(heap[g].left, heap[g].width)

\* the end of a press that took the room branch of mouse:down
RoomGestureEnds == mouse.pressed /\ ~mouse'.pressed /\ gesture.roomPress

\* snapped extent of the drag, from the press to the release, along an axis
Extent(axis) == Abs(snapToGrid(mouse.p[axis]) - gesture.start[axis])

\* C3: a completed room-draw gesture (press on empty canvas with the room
\* tool, one or more moves, release) whose snapped extent exceeds the
\* threshold in both axes leaves exactly one new room object, a composite,
\* and exactly one new label pair, and no other new object tagged as a room.
C3_OneRoomPerGesture ==
  [][ (/\ RoomGestureEnds /\ gesture.moved
       /\ Extent(1) > LabelMinSize /\ Extent(2) > LabelMinSize)
      => /\ \E g \in SeqToSet(canvasObjects') :
               /\ heap'[g].kind = "group"
               /\ g \notin SeqToSet(gesture.before)
               /\ RoomObjects(canvasObjects', heap')
                     = RoomObjects(gesture.before, heap) \cup {g}
         /\ Cardinality(SurfacePairs(canvasObjects', heap'))
               = Cardinality(SurfacePairs(gesture.before, heap)) + 1 ]_vars

\* C4: at all times the number of room objects on the surface equals the
\* number of label pairs in the index and the number on the surface.
C4_RoomsEqualLabelPairs ==
  /\ Cardinality(RoomObjects(canvasObjects, heap))
        = Cardinality(DOMAIN roomLabelsRef)
  /\ Cardinality(RoomObjects(canvasObjects, heap))
        = Cardinality(SurfacePairs(canvasObjects, heap))

\* C5: deleting the selected room through the delete button is one step
\* after which the room is off the surface, no label carrying its
\* identifier is on the surface or in the label index, the selection is
\* cleared, the delete button is hidden and the parent holds a null
\* selection.
C5_DeletesRoom ==
  /\ handleDeleteObject
  /\ selectedObject # Null
  /\ heap[selectedObject].isRoom
  /\ selectedObject \in SeqToSet(canvasObjects)

C5_Deleted ==
  LET id == heap[selectedObject].id
  IN /\ selectedObject \notin SeqToSet(canvasObjects')
     /\ LabelsOn(canvasObjects', heap', id, "width") = {}
     /\ LabelsOn(canvasObjects', heap', id, "height") = {}
     /\ id \notin DOMAIN roomLabelsRef'
     /\ activeObject' = Null
     /\ selectedObject' = Null
     /\ ~deleteButton'.show
     /\ pageSelectedObject' = Null

\* C5: one delete step on a selected room removes the room and both its labels
\* from the surface, drops its index entry and clears the selection.
C5_DeleteRoomAtomic == [][C5_DeletesRoom => C5_Deleted]_vars

\* a composite room that had a label pair and has been deleted: it is off
\* the surface with its labels, and the index has forgotten its identifier
C5_RoomDeleted ==
  \E g \in DOMAIN heap :
     /\ heap[g].kind = "group" /\ heap[g].isRoom
     /\ g \notin SeqToSet(canvasObjects)
     /\ heap[g].id \notin DOMAIN roomLabelsRef
     /\ \E l \in DOMAIN heap :
           /\ heap[l].isDimensionLabel /\ heap[l].roomId = heap[g].id
           /\ l \notin SeqToSet(canvasObjects)
     /\ selectedObject = Null /\ activeObject = Null
     /\ ~deleteButton.show /\ pageSelectedObject = Null

\* C6: no room-tool gesture whose snapped extent is zero in either axis
\* leaves a room object on the surface that was not there at the press.
C6_NoDegenerateRoom ==
  [][ (RoomGestureEnds /\ (Extent(1) = 0 \/ Extent(2) = 0))
      => RoomObjects(canvasObjects', heap')
            \subseteq RoomObjects(gesture.before, heap) ]_vars

\* C7: with the room tool a press on empty canvas only records the snapped
\* start point, and a release that follows with no move in between leaves
\* the surface as it was at the press and clears the start point.
C7_PressOnlyRecords ==
  (mouse.pressed /\ gesture.roomPress /\ ~gesture.moved)
     => /\ canvasObjects = gesture.before
        /\ startPoint = <<snapToGrid(mouse.p[1]), snapToGrid(mouse.p[2])>>

C7_ReleaseAddsNothing ==
  (RoomGestureEnds /\ ~gesture.moved)
     => /\ canvasObjects' = gesture.before
        /\ startPoint' = NoPoint

\* C7: with the room tool, a press only records the start point, and a release
\* with no move in between leaves the surface as the press found it.
C7_ClickAddsNothing ==
  []C7_PressOnlyRecords /\ [][C7_ReleaseAddsNothing]_vars

\* a room-tool click on empty canvas has just been released, next to a
\* room drawn before
C7_ClickReleased ==
  /\ gesture.roomClick /\ ~mouse.pressed
  /\ startPoint = NoPoint
  /\ RoomObjects(canvasObjects, heap) # {}

\* C8: every finalized room on the surface, drawn with the room tool or
\* placed by the generator, has width > 0 and height > 0.
C8_FinalizedRoomsPositive ==
  \A o \in SeqToSet(canvasObjects) :
     (heap[o].kind = "group" /\ heap[o].isRoom)
        => heap[o].width > 0 /\ heap[o].height > 0

\* the room's pair is on the surface where its bounding rect puts it, with
\* the text of its size
LabelsReflect(h, labels, canv, room) ==
  LET r == h[room]
  IN /\ r.id \in DOMAIN labels
     /\ LET w == h[labels[r.id].width]
            t == h[labels[r.id].height]
        IN /\ labels[r.id].width \in SeqToSet(canv)
           /\ labels[r.id].height \in SeqToSet(canv)
           /\ w.left2 = 2 * r.left + r.width
           /\ w.top2 = 2 * (r.top + r.height + LabelOffset)
           /\ w.text = FeetTenths(r.width)
           /\ t.left2 = 2 * (r.left + r.width + LabelOffset)
           /\ t.top2 = 2 * r.top + r.height
           /\ t.text = FeetTenths(r.height)

\* an object:moving, object:scaling or object:modified event on a room
\* that has a label pair
RoomTransformEvent ==
  /\ mouse.pressed /\ mouse.transform # Null
  /\ heap[mouse.transform].isRoom
  /\ heap[mouse.transform].id \in DOMAIN roomLabelsRef
  /\ \/ mouse'.steps = mouse.steps + 1
     \/ mouse.acted /\ ~mouse'.pressed

\* C9: after every object:moving, object:scaling or object:modified event
\* on a room its label pair reflects the room's current bounding rect.
C9_LabelsFollowRoom ==
  [][ RoomTransformEvent
      => LabelsReflect(heap', roomLabelsRef', canvasObjects',
                       mouse.transform) ]_vars

\* C10: the object regrouped when a label edit ends carries the identifier
\* and the semantic tags (room tag, furniture tag, catalog data) of the
\* composite that was double-clicked.
C10_EditPreservesIdentity ==
  [][ (editing # Null /\ editing' = Null)
      => LET listeners == heap[editing].exitListeners
             old == heap[listeners[Len(listeners)]]
         IN /\ activeObject' # Null
            /\ heap'[activeObject'].kind = "group"
            /\ heap'[activeObject'].id = old.id
            /\ heap'[activeObject'].isRoom = old.isRoom
            /\ heap'[activeObject'].isFurniture = old.isFurniture
            /\ heap'[activeObject'].furnitureData = old.furnitureData ]_vars

\* the objects of `others` that are below o in the draw order canv
BelowIn(canv, o, others) ==
  {x \in others : IndexOf(canv, x) < IndexOf(canv, o)}

\* C11: when a label edit ends, the regrouped composite is on the surface at
\* the depth the double-clicked composite had: every other object that was
\* on the surface is still there, in the same order, and the same ones are
\* below the regrouped composite as were below the original.
C11_EditKeepsDepth ==
  [][ (editing # Null /\ editing' = Null)
      => LET old    == gesture.editGroup
             before == gesture.editBefore
             others == SeqToSet(before) \ {old}
             new    == activeObject'
         IN /\ new # Null /\ new \in SeqToSet(canvasObjects')
            /\ heap'[new].kind = "group"
            /\ SelectSeq(canvasObjects', LAMBDA x : x \in others)
                  = SelectSeq(before, LAMBDA x : x \in others)
            /\ BelowIn(canvasObjects', new, others)
                  = BelowIn(before, old, others) ]_vars

\* the draw order restricted to the objects that are not furniture
\* composites
OtherOrder(canv, h) == SelectSeq(canv, LAMBDA o : ~IsFurnitureGroup(h[o]))

C12_SendsFurnitureBack ==
  /\ MenuSendToBack
  /\ contextMenu.target # Null
  /\ contextMenu.target \in SeqToSet(canvasObjects)
  /\ IsFurnitureGroup(heap[contextMenu.target])

\* C12: send-to-back from the context menu of a furniture composite leaves
\* no furniture composite below a room, leaves the objects that are not
\* furniture in the order they had, and neither adds nor removes an object.
C12_SendToBackAmongFurniture ==
  [][ C12_SendsFurnitureBack
      => /\ \A i, j \in 1..Len(canvasObjects') :
               (/\ IsFurnitureGroup(heap'[canvasObjects'[i]])
                /\ heap'[canvasObjects'[j]].isRoom) => i > j
         /\ OtherOrder(canvasObjects', heap') = OtherOrder(canvasObjects, heap)
         /\ SeqToSet(canvasObjects') = SeqToSet(canvasObjects)
         /\ Len(canvasObjects') = Len(canvasObjects) ]_vars

\* the release of a press that a drawing tool took on empty canvas, with
\* no pointer move since the press
DrawClickEnds ==
  /\ mouse.pressed /\ ~mouse'.pressed /\ ~gesture.moved
  /\ \/ activeTool = "room" /\ gesture.roomPress
     \/ activeTool = "wall" /\ currentWall # Null

\* C13: with the wall or the room tool, a press on empty canvas released
\* with no move in between makes select the active tool and leaves nothing
\* selected, on the surface, in the canvas state or in the page, and the
\* delete button hidden.
C13_ClickFallsBackToSelect ==
  [][ DrawClickEnds
      => /\ activeTool' = "select"
         /\ activeObject' = Null
         /\ selectedObject' = Null
         /\ pageSelectedObject' = Null
         /\ ~deleteButton'.show ]_vars

C15_ToolbarSelects == \E tool \in Tools : handleToolChange(tool)

\* a release whose mouse:up handler calls onObjectSelect("select")
C15_FallBackSignalled ==
  /\ mouse.pressed /\ ~mouse'.pressed
  /\ ~bound.isDragging
  /\ mouse.transform = Null /\ findTarget(Cur, mouse.p) = Null
  /\ bound.activeTool \notin {"select", "dimension"}

\* C15: the active tool changes only when a toolbar tool is selected or
\* when the canvas signals the fall-back to select; every other step leaves
\* it as it was.
C15_ToolChangesOnlyBySelection ==
  [][ activeTool' # activeTool
      => C15_ToolbarSelects \/ C15_FallBackSignalled ]_vars

\* a room drag that moved and was finalised into a room leaves the tool
C15_DragKeepsTool ==
  [][ (mouse.pressed /\ ~mouse'.pressed /\ gesture.moved
       /\ Len(canvasObjects') > 0)
      => activeTool' = activeTool ]_vars

\* a primary-button press at p with the dimension tool
C16_Click(p) == activeTool = "dimension" /\ MouseDown(p, "left")

\* the line and the text label from a to b are the two objects added last
C16_AnnotationAdded(a, b) ==
  /\ Len(canvasObjects') = Len(canvasObjects) + 2
  /\ SubSeq(canvasObjects', 1, Len(canvasObjects)) = canvasObjects
  /\ LET l == canvasObjects'[Len(canvasObjects) + 1]
         t == canvasObjects'[Len(canvasObjects) + 2]
     IN /\ DOMAIN heap' = DOMAIN heap \cup {l, t}
        /\ l \notin DOMAIN heap /\ t \notin DOMAIN heap /\ l # t
        /\ heap'[l].kind = "line" /\ ~heap'[l].selectable
        /\ <<heap'[l].x1, heap'[l].y1>> = a
        /\ <<heap'[l].x2, heap'[l].y2>> = b
        /\ heap'[t].kind = "text" /\ ~heap'[t].selectable
        /\ heap'[t].left2 = a[1] + b[1]
        /\ heap'[t].top2 = a[2] + b[2] - 20
        /\ \A o \in DOMAIN heap : heap'[o] = heap[o]

C16_ClickStep(p) ==
  LET q == <<snapToGrid(p[1]), snapToGrid(p[2])>>
  IN IF dimensionStart = NoPoint
     THEN /\ dimensionStart' = q
          /\ canvasObjects' = canvasObjects
          /\ heap' = heap
     ELSE /\ C16_AnnotationAdded(dimensionStart, q)
          /\ dimensionStart' = NoPoint

\* the annotations on the surface and the pending start after
\* gesture.dimClicks clicks
C16_Parity ==
  /\ Cardinality({o \in SeqToSet(canvasObjects) : IsDimLine(heap[o])})
        = gesture.dimClicks \div 2
  /\ Cardinality({o \in SeqToSet(canvasObjects) :
                   heap[o].kind = "text" /\ heap[o].elementType = "dimension"})
        = gesture.dimClicks \div 2
  /\ (dimensionStart # NoPoint) <=> (gesture.dimClicks % 2 = 1)

\* C16: a click with the dimension tool while no start is pending records
\* the snapped point and adds nothing; a click while a start is pending
\* adds exactly one line and one text label from the pending start to the
\* snapped point and resets the pending start; after n clicks there are
\* n div 2 annotations and a start is pending exactly when n is odd.
C16_TwoClickProtocol ==
  /\ [][ \A p \in Points : C16_Click(p) => C16_ClickStep(p) ]_vars
  /\ []C16_Parity

\* an annotation has been added and a third click is pending
C16_ThirdClickPending ==
  /\ gesture.dimClicks = 3 /\ dimensionStart # NoPoint
  /\ \E o \in SeqToSet(canvasObjects) :
        IsDimLine(heap[o]) /\ (heap[o].x1 # heap[o].x2 \/ heap[o].y1 # heap[o].y2)

\* a right-click or Ctrl+click at p, on an object
C17_MenuPress(p, b) == findTarget(Cur, p) # Null /\ MouseDown(p, b)

\* C17: a right-click or Ctrl+left-click on an object, with any tool, leaves
\* the context menu visible at the pointer with that object as its target,
\* and takes no tool action: no object is created and the pending dimension
\* start and the draw start point stay as they were.
C17_PressOpensMenu ==
  [][ \A p \in Points, b \in {"right", "ctrl"} :
        C17_MenuPress(p, b)
        => /\ contextMenu' = [isVisible |-> TRUE, x |-> p[1], y |-> p[2],
                              target |-> findTarget(Cur, p)]
           /\ DOMAIN heap' = DOMAIN heap
           /\ canvasObjects' = canvasObjects
           /\ dimensionStart' = dimensionStart
           /\ startPoint' = startPoint ]_vars

\* what closes the menu: its two items, Escape or a press outside the menu
\* and the canvas, and a press on the canvas with any button
C18_Closes ==
  \/ MenuBringToFront \/ MenuSendToBack \/ MenuClose
  \/ \E p \in Points, b \in Buttons : MouseDown(p, b)

C19_SelectionEnds ==
  \/ selectedObject # Null /\ selectedObject' = Null
  \/ handleDeleteObject /\ selectedObject # Null
  \/ handleClear

\* C19: the delete button is shown only while an object that is on the
\* surface is selected, and it is hidden after the selection is cleared,
\* the selected object is deleted or the canvas is cleared.
C19_DeleteButtonFollowsSelection ==
  /\ [](deleteButton.show
          => /\ selectedObject # Null
             /\ selectedObject \in SeqToSet(canvasObjects))
  /\ [][ C19_SelectionEnds => ~deleteButton'.show ]_vars

\* the string is <digits>" x <digits>"
C20_IsForm(str) ==
  \E k \in 1..Len(str) :
     /\ Len(str) >= k + 6
     /\ \A i \in 1..k : str[i] \in Digits
     /\ SubSeq(str, k + 1, k + 4) = <<"\"", " ", "x", " ">>
     /\ \A i \in (k + 5)..(Len(str) - 1) : str[i] \in Digits
     /\ str[Len(str)] = "\""

\* W and H of a string of that form
C20_FormW(str) == parseInt(SubSeq(str, 1, FirstAt(str, 1, {"\""}) - 1))
C20_FormH(str) == parseInt(SubSeq(str, FirstAt(str, 1, {"x"}) + 2, Len(str) - 1))

\* the string has no digit, then an x, then a digit
C20_NoPattern(str) ==
  ~ \E i, j, k \in 1..Len(str) :
       i < j /\ j < k /\ str[i] \in Digits /\ str[j] = "x" /\ str[k] \in Digits

\* the step added exactly one furniture composite for f: a w by h
\* rectangle and a label with the name, anchored at the snapped point, on
\* top of the draw order and selected
C20_Placed(f, p, w, h) ==
  LET g == activeObject'
  IN /\ g # Null /\ g \notin DOMAIN heap
     /\ canvasObjects' = Append(canvasObjects, g)
     /\ heap'[g].kind = "group" /\ heap'[g].isFurniture
     /\ heap'[g].furnitureData = f.name
     /\ heap'[g].left = snapToGrid(p[1]) /\ heap'[g].top = snapToGrid(p[2])
     /\ Len(heap'[g].objects) = 2
     /\ heap'[heap'[g].objects[1]].kind = "rect"
     /\ heap'[heap'[g].objects[1]].width = w
     /\ heap'[heap'[g].objects[1]].height = h
     /\ heap'[heap'[g].objects[2]].kind = "itext"
     /\ heap'[heap'[g].objects[2]].text = f.name
     /\ heap'[g].furnitureText = heap'[g].objects[2]
     /\ selectedObject' = g /\ pageSelectedObject' = g
     /\ \A o \in DOMAIN heap : heap'[o] = heap[o]

C20_RectAt(i) == heap[heap[canvasObjects[i]].objects[1]]

C21_Malformed == Payloads \ CatalogEntries

\* C21: a drop with a malformed payload (no data, invalid JSON, or JSON
\* lacking the dimensions) leaves the objects on the surface and the
\* selection unchanged, and the user is notified.
C21_MalformedDropRejected ==
  [][ \A f \in C21_Malformed, p \in Points :
        handleDrop(f, p)
        => /\ canvasObjects' = canvasObjects
           /\ heap' = heap
           /\ activeObject' = activeObject
           /\ selectedObject' = selectedObject
           /\ pageSelectedObject' = pageSelectedObject
           /\ gesture'.dropToast ]_vars

\* the part of C21 about the surface and the selection alone
C21_MalformedDropChangesNothing ==
  [][ \A f \in C21_Malformed, p \in Points :
        handleDrop(f, p)
        => /\ canvasObjects' = canvasObjects
           /\ heap' = heap
           /\ activeObject' = activeObject
           /\ selectedObject' = selectedObject
           /\ pageSelectedObject' = pageSelectedObject ]_vars


C22_Signature(type) == CASE type \in {"image/jpeg", "image/jpg"} -> <<255, 216, 255>> [] type = "image/png" -> <<137, 80, 78, 71, 13, 10, 26, 10>> [] type = "application/pdf" -> <<37, 80, 68, 70>>

C22_Meets(f, t) == /\ f.size > 0 /\ f.size <= 10 * 1024 * 1024 /\ sanitizeFilename(f.name) # <<>> /\ f.type \in {"image/jpeg", "image/jpg", "image/png", "application/pdf"} /\ Len(f.head) >= Len(C22_Signature(f.type)) /\ SubSeq(f.head, 1, Len(C22_Signature(f.type))) = C22_Signature(f.type) /\ validateFileContent(f, t)

C22_Rejected == /\ dialog'.file = dialog.file /\ dialog'.previewUrl = dialog.previewUrl /\ urls' = urls /\ dialog'.toast = "error"

\* C22: validateFile accepts a file only if it is non-empty, at most 10 MB,
\* has a sanitizable name, a JPEG, PNG or PDF MIME type, leading bytes that
\* match the signature of that type and passes the content check; a file
\* handleFileSelect rejects leaves the selected file and the preview URL as
\* they were and an error is reported.
C22_OnlyValidFilesSelected == [][ \A f \in Files, t \in BOOLEAN : handleFileSelect(f, t) => /\ (validateFile(f, t).isValid => C22_Meets(f, t)) /\ (~C22_Meets(f, t) => C22_Rejected) /\ (~validateFile(f, t).isValid => C22_Rejected) ]_vars

\* a file was rejected while another one is selected and previewed
C22_RejectedAfterSelected == dialog.toast = "error" /\ dialog.file # NoFile /\ dialog.previewUrl # Null /\ dialog.analyses = 0


C23_Labels(elements) == [i \in 1..Len(elements) |-> elements[i].label.text]

C23_Synthetic(result) == /\ result.success /\ Len(result.data.elements) = 3 /\ C23_Labels(result.data.elements) = <<"Living Room", "Kitchen", "Bedroom">> /\ \A i \in 1..3 : result.data.elements[i].type = "room"

C23_FellBack == /\ ai'.returned = ai.returned + 1 /\ C23_Synthetic(ai'.result) /\ dialog'.toast # "error"

C23_StartFails(c, l, i) == (dialog.file.type = "application/pdf" /\ ~c) \/ ~l \/ ~initializeModels(ai, i).ready

C23_InferenceFails == DetectorRejects \/ DetectionTimeout \/ SegmenterRejects \/ SegmentationTimeout

\* C23: whatever fails during analyzeFloorplan (the conversion or the
\* loading of the image, the initialisation of the models, an inference
\* call that throws or times out), the call returns a success whose
\* elements are the three rooms Living Room, Kitchen, Bedroom, and the
\* dialog shows no error.
C23_EveryFailureFallsBack == [][ /\ (C23_InferenceFails => C23_FellBack) /\ (\A c \in BOOLEAN, l \in BOOLEAN, i \in InitOutcomes : (handleAnalyze(c, l, i) /\ C23_StartFails(c, l, i)) => C23_FellBack) ]_vars

\* the same for the failures after the image has loaded
C23_LateFailureFallsBack == [][ /\ (C23_InferenceFails => C23_FellBack) /\ (\A c \in BOOLEAN, i \in InitOutcomes : (handleAnalyze(c, TRUE, i) /\ (dialog.file.type = "application/pdf" => c) /\ ~initializeModels(ai, i).ready) => C23_FellBack) ]_vars


\* C24: once the models are initialised, a call of analyzeFloorplan that
\* waits for the detector or the segmenter eventually returns, even if
\* that call never settles.
C24_CallReturns == (ai.pending # "none") ~> (ai.pending = "none")

\* the same where each inference call is raced against a timer
C24_TimedCallReturns == (ai.secured /\ ai.pending # "none") ~> (ai.pending = "none")


C25_FromDetection(element) == element.label.n > 0

\* C25: the elements an analysis returns hold no element made from a
\* detection whose score is below 0.3, whatever the detector resolved with.
C25_NoWeakDetectionReturned == [][ SegmenterResolves => \A i \in 1..Len(ai'.result.data.elements) : C25_FromDetection(ai'.result.data.elements[i]) => ai.objectResults.list[ai'.result.data.elements[i].label.n].score >= 30 ]_vars

\* an analysis returned an element made from a detection, and the detector
\* had also reported a detection below 0.3
C25_WeakDetectionDropped == /\ ai.pending = "none" /\ ai.returned = 1 /\ \E i \in 1..Len(ai.result.data.elements) : C25_FromDetection(ai.result.data.elements[i]) /\ \E j \in 1..Len(ai.objectResults.list) : ai.objectResults.list[j].score < 30


C26_InputUrls == {u \in urls.live : u.use \in {"input", "pdf"}}

C26_PreviewUrls == {u.n : u \in {v \in urls.live : v.use = "preview"}}

\* C26: no object URL outlives its use: while no analyzeFloorplan call is
\* in flight none of the URLs made for the analysis or the PDF conversion
\* is live, the only live preview URL is the one the dialog shows, and
\* none is live while the dialog is closed.
C26_UrlsRevoked == /\ (ai.pending = "none" => C26_InputUrls = {}) /\ C26_PreviewUrls \subseteq {dialog.previewUrl} /\ (~dialog.isOpen => C26_PreviewUrls = {})

\* a call that returns a success leaves none of its own URLs live
C26_SuccessLeavesNoInputUrl == [][ (ai'.returned = ai.returned + 1 /\ ai'.result.success) => \A u \in urls'.live : u.use \in {"input", "pdf"} => (u.n <= urls.made /\ u.n # ai.imageUrl) ]_vars


C27_FullGrid == Cardinality({i \in 0..1200 : i % 20 = 0}) + Cardinality({i \in 0..800 : i % 20 = 0})

\* C27: after clearCanvas and after generateCanvasFromFloorplan the surface
\* holds one grid line per multiple of the minor spacing across the width
\* and the height, and clearCanvas leaves no other object.
C27_GridSurvivesBulkClearing == [][ /\ (handleClear => (gridLineCount' = C27_FullGrid /\ canvasObjects' = <<>>)) /\ (\A l \in Layouts, t \in Ticks : generateCanvasFromFloorplan(l, t) => gridLineCount' = C27_FullGrid) ]_vars

\* the same for clearCanvas alone
C27_GridSurvivesClear == [][ handleClear => (gridLineCount' = C27_FullGrid /\ canvasObjects' = <<>>) ]_vars


\* no two room objects on the surface share an identifier
C28_UniqueIds == \A a \in RoomObjects(canvasObjects, heap), b \in RoomObjects(canvasObjects, heap) : a # b => heap[a].id # heap[b].id

C28_NewGroups == {g \in RoomObjects(canvasObjects', heap') \ RoomObjects(canvasObjects, heap) : heap'[g].kind = "group"}

\* a room keeps its identifier while it is on the surface, and the group
\* that replaces a rectangle or an edited group has the identifier of what
\* it replaces
C28_StableStep == /\ \A o \in RoomObjects(canvasObjects, heap) \cap RoomObjects(canvasObjects', heap') : heap'[o].id = heap[o].id /\ \A g \in C28_NewGroups : \/ (currentRoom # Null /\ heap'[g].id = heap[currentRoom].id) \/ (gesture.editGroup # Null /\ heap'[g].id = heap[gesture.editGroup].id)

\* C28: no two room objects on the surface ever share an identifier, and
\* the identifier a room gets when its rectangle is created is the one of
\* the finalized group and is kept through every move, resize and label
\* edit.
C28_IdsUniqueAndStable == []C28_UniqueIds /\ [][C28_StableStep]_vars

\* the stability alone
C28_IdsStable == [][C28_StableStep]_vars



C29_Finalized(h) == {g \in DOMAIN h : h[g].kind = "group" /\ h[g].isRoom}

C29_LabelOf(h, g) == h[h[g].roomText].text

C29_CounterStep == /\ roomCounterRef' = roomCounterRef + Cardinality(C29_Finalized(heap') \ C29_Finalized(heap)) /\ Cardinality(C29_Finalized(heap') \ C29_Finalized(heap)) <= 1 /\ \A g \in C29_Finalized(heap') \ C29_Finalized(heap) : C29_LabelOf(heap', g) = Cardinality(C29_Finalized(heap)) + 1

\* C29: the label of the k-th room the room tool finalizes is Room k: the
\* counter starts at 1, grows by one with every finalized room and with
\* nothing else, and no deletion, clearing or gesture without a room
\* lowers it.
C29_RoomsNumberedInOrder == [](roomCounterRef = 1 + Cardinality(C29_Finalized(heap))) /\ [][C29_CounterStep]_vars

\* a second room was finalized after the first one had left the surface
C29_SecondRoomAfterRemoval == \E g \in RoomObjects(canvasObjects, heap) : /\ heap[g].kind = "group" /\ C29_LabelOf(heap, g) = 2 /\ \A o \in RoomObjects(canvasObjects, heap) : o = g


\* C30: whatever tools were chosen and however often the handlers were
\* bound again, no canvas event has more than one handler of the canvas
\* component: the double-click handlers are one, and the object:moving and
\* mouse:over listeners have captured one selection.
C30_OneHandlerPerEvent == dblclickHandlers <= 1 /\ Cardinality(listenerSelected) <= 1


\* a mouse:move with the pointer at p that reaches room.set: the handlers
\* in force saw isDrawing, the room tool and a start point, and there is a
\* rectangle being drawn
C31_ResizeAt(p) == /\ bound.isDrawing /\ bound.activeTool = "room" /\ bound.startPoint # NoPoint /\ currentRoom' # Null /\ \E t \in Ticks : MouseMove(p, t, "moving", <<60, 60>>, <<60, 60>>)

\* the rectangle r spans from the start point to the snapped pointer
C31_Spans(r, start, p) == /\ r.width = Abs(snapToGrid(p[1]) - start[1]) /\ r.height = Abs(snapToGrid(p[2]) - start[2]) /\ r.left = Min(start[1], snapToGrid(p[1])) /\ r.top = Min(start[2], snapToGrid(p[2])) /\ r.width >= 0 /\ r.height >= 0

C32_Snapped(c, v) == /\ v % GridSize = 0 /\ 2 * Abs(v - c) <= GridSize /\ snapToGrid(v) = v

\* a press that records a start point, and a move of the pointer that sets
\* the end of the wall being drawn; mouse.p is where the pointer is
C32_Pressed == ~mouse.pressed /\ mouse'.pressed /\ startPoint' # NoPoint

C32_WallMoved == /\ mouse.pressed /\ mouse'.pressed /\ mouse'.p # mouse.p /\ bound.isDrawing /\ bound.activeTool = "wall" /\ currentWall # Null

\* C32: the snap of every coordinate is a multiple of the grid spacing,
\* at most half a spacing away from the coordinate, and snapping it again
\* changes nothing: checked on the start point every press records and on
\* the end point every move gives the wall being drawn.
C32_SnapIsNearestMultiple == [][(C32_Pressed => (C32_Snapped(mouse'.p[1], startPoint'[1]) /\ C32_Snapped(mouse'.p[2], startPoint'[2]))) /\ (C32_WallMoved => (C32_Snapped(mouse'.p[1], heap'[currentWall].x2) /\ C32_Snapped(mouse'.p[2], heap'[currentWall].y2)))]_vars

\* a wall is being dragged left of the canvas and its end, half-way
\* between two grid lines, went to the higher one
C32_HalfWayUp == /\ mouse.pressed /\ currentWall # Null /\ mouse.p = <<-30, 50>> /\ heap[currentWall].x2 = -20 /\ heap[currentWall].y2 = 60


C33_OnGrid(v) == v % GridSize = 0

\* the points of a shape the claim names: the ends of a wall or of a
\* dimension annotation, the four corners of a room, the anchor of a
\* furniture item
C33_Aligned(o) == IF IsWall(o) \/ IsDimLine(o) THEN C33_OnGrid(o.x1) /\ C33_OnGrid(o.y1) /\ C33_OnGrid(o.x2) /\ C33_OnGrid(o.y2) ELSE IF o.isRoom THEN C33_OnGrid(o.left) /\ C33_OnGrid(o.top) /\ C33_OnGrid(o.left + o.width) /\ C33_OnGrid(o.top + o.height) ELSE IF IsFurnitureGroup(o) THEN C33_OnGrid(o.left) /\ C33_OnGrid(o.top) ELSE TRUE

\* C33: every wall end, every corner of a room drawn or finalized with the
\* room tool, every end of a dimension annotation and the anchor of every
\* dropped furniture item lies on a multiple of the grid spacing.
C33_EveryShapeOnGrid == \A o \in SeqToSet(canvasObjects) : C33_Aligned(heap[o])

\* the same with the far corners of a room left out where the room has the
\* forced minimum extent
C33_AlignedButMinimum(o) == IF o.isRoom THEN C33_OnGrid(o.left) /\ C33_OnGrid(o.top) /\ (o.width = MinFinalSize \/ C33_OnGrid(o.left + o.width)) /\ (o.height = MinFinalSize \/ C33_OnGrid(o.top + o.height)) ELSE C33_Aligned(o)

C33_OnGridButMinimum == \A o \in SeqToSet(canvasObjects) : C33_AlignedButMinimum(heap[o])


\* where updateDeleteButtonPosition puts the button for the object o
C34_ButtonAt(o) == [show |-> TRUE, x |-> getBoundingRect(o).left + getBoundingRect(o).width - DeleteInset, y |-> getBoundingRect(o).top - DeleteInset]

\* C34: whenever the delete button is shown for a selected object, it is
\* at the top-right corner of that object's current bounding rect, inset
\* by 10: never at a position the object had before a move or a resize.
C34_DeleteButtonAtCorner == (deleteButton.show /\ selectedObject # Null) => deleteButton = C34_ButtonAt(heap[selectedObject])

\* the selected object o, known to an object:moving listener, is moved
C34_Moved(o) == /\ o # Null /\ o = selectedObject' /\ o = mouse.transform /\ o \in listenerSelected /\ o \in DOMAIN heap /\ (heap'[o].left # heap[o].left \/ heap'[o].top # heap[o].top)

\* the button follows every move of the selected object
C34_ButtonFollowsMove == [][C34_Moved(selectedObject) => deleteButton' = C34_ButtonAt(heap'[selectedObject])]_vars


\* an element of the pipeline with a valid type and its four coordinates
\* in range
C35_WellFormed(e) == /\ e.type \in ValidTypes /\ \A k \in {"x", "y", "width", "height"} : sanitizeNumber(e.coordinates[k], -CoordinateRange, CoordinateRange).ok

\* C35: whenever analyzeFloorplan has succeeded, the data handed to
\* onFloorplanAnalyzed has one element for every well-formed element the
\* pipeline returned; the three synthetic rooms reach the consumer.
C35_NoElementLost == ai.result.success => Len(dialog.delivered.elements) = Len(SelectSeq(ai.result.data.elements, C35_WellFormed))

\* what does reach the consumer: the dimensions and the scale, and never
\* an element
C35_OnlyFrameDelivered == ai.result.success => (dialog.delivered.elements = <<>> /\ dialog.delivered.scale >= 1 /\ (ai.result.data.dimensions.width \in MinDimension..CoordinateRange /\ ai.result.data.dimensions.height \in MinDimension..CoordinateRange => dialog.delivered.dimensions = ai.result.data.dimensions))


\* the draw order restricted to the objects tagged as furniture
C36_FurnitureOrder(canv, h) == SelectSeq(canv, LAMBDA o : h[o].isFurniture)

\* send-to-back from the menu of a furniture object that is on the
\* surface and is not the lowest furniture object
C36_SentBack == /\ MenuSendToBack /\ contextMenu.target # Null /\ contextMenu.target \in SeqToSet(canvasObjects) /\ heap[contextMenu.target].isFurniture /\ IndexOf(C36_FurnitureOrder(canvasObjects, heap), contextMenu.target) > 1

\* C36: send-to-back on a furniture object that is not the lowest
\* furniture object moves it strictly lower among the furniture objects,
\* whatever lies between them in the draw order.
C36_SendToBackLowers == [][C36_SentBack => IndexOf(C36_FurnitureOrder(canvasObjects', heap'), contextMenu.target) < IndexOf(C36_FurnitureOrder(canvasObjects, heap), contextMenu.target)]_vars

\* the same where the object just below the target is furniture
C36_SendToBackLowersAdjacent == [][(C36_SentBack /\ heap[canvasObjects[IndexOf(canvasObjects, contextMenu.target) - 1]].isFurniture) => IndexOf(C36_FurnitureOrder(canvasObjects', heap'), contextMenu.target) = IndexOf(C36_FurnitureOrder(canvasObjects, heap), contextMenu.target) - 1]_vars


\* the dimension tool is chosen while another tool is active
C37_EntersDimension == activeTool # "dimension" /\ activeTool' = "dimension"

\* C37: a pending dimension start point does not survive leaving the
\* dimension tool: when the tool is chosen again there is no start point,
\* so that the next click records a new start and draws nothing.
C37_NoPendingStartOnReturn == [][C37_EntersDimension => dimensionStart' = NoPoint]_vars

\* a click in the dimension tool with a start point pending draws the
\* annotation from that point, whenever the point was recorded
C37_SecondClickDraws == [][(bound.activeTool = "dimension" /\ dimensionStart # NoPoint /\ ~mouse.pressed /\ mouse'.pressed /\ mouse'.transform = Null /\ gesture'.dimClicks > gesture.dimClicks) => (dimensionStart' = NoPoint /\ CountDimLines(heap') = CountDimLines(heap) + 1)]_vars


\* the pending analysis completes while the dialog is dismissed
C38_CompletesDismissed == ~dialog.isOpen /\ ai.pending # "none" /\ ai'.pending = "none"

\* C38: an analysis that completes after the dialog was dismissed hands
\* nothing to onFloorplanAnalyzed.
C38_NoResultAfterDismissal == [][C38_CompletesDismissed => dialog'.delivered = dialog.delivered]_vars

\* an analysis that fails hands nothing over, dismissed or not
C38_FailureDeliversNothing == [][(ai'.returned > ai.returned /\ ~ai'.result.success) => dialog'.delivered = dialog.delivered]_vars


\* the synthetic rooms of the last result (a detection's label carries
\* its number, a synthetic room's none)
C39_Synthetic == {i \in 1..Len(ai.result.data.elements) : ai.result.data.elements[i].label.n = 0}

C39_Across(c, dims) == c.x >= 0 /\ c.width >= 0 /\ c.x + c.width <= dims.width

C39_Down(c, dims) == c.y >= 0 /\ c.height >= 0 /\ c.y + c.height <= dims.height

\* C39: each synthetic fallback room lies inside the image it was made
\* for: x >= 0, y >= 0, x + width <= W and y + height <= H.
C39_SyntheticRoomsInside == ai.result.success => \A i \in C39_Synthetic : C39_Across(ai.result.data.elements[i].coordinates, ai.result.data.dimensions) /\ C39_Down(ai.result.data.elements[i].coordinates, ai.result.data.dimensions)

\* every synthetic room is inside the image across, and the Living Room
\* and the Kitchen are inside it down as well
C39_InsideButBedroomDown == ai.result.success => \A i \in C39_Synthetic : C39_Across(ai.result.data.elements[i].coordinates, ai.result.data.dimensions) /\ (ai.result.data.elements[i].label.text # "Bedroom" => C39_Down(ai.result.data.elements[i].coordinates, ai.result.data.dimensions))

=============================================================================
